---- MODULE Spec2Model ----
(***************************************************************************)
(* Model of claude-skills/css-mimic/scripts/analyze_colors.py: the palette *)
(* extractor (pixel filter, k-means clustering, frequency sort) and the    *)
(* categorizer (primary / neutral / accent buckets).                       *)
(*                                                                         *)
(* A colour is a triple <<r, g, b>> of integers 0..255.  A cluster centre  *)
(* is the exact mean of its members, kept as [sum, n] (channel sums and    *)
(* member count), so that int() of a centre channel is sum \div n.         *)
(*                                                                         *)
(* The module also models the three scripts of                             *)
(* claude-skills/htmx-component-builder/scripts: generate_component.py     *)
(* (SpecComponent, with test_component.py) and analyze_templates.py        *)
(* (SpecTemplates).  A template of str.format is a sequence of items, a    *)
(* line of a scanned file a sequence of pieces of text.                    *)
(***************************************************************************)
EXTENDS Integers, Sequences, FiniteSets, TLC

VARIABLES
    pc,             \* position of the run / of the function under check
    image,          \* pixels of the loaded, converted and resized image
    num_colors,     \* the num_colors argument (K)
    pixels,         \* the pixel array handed to KMeans.fit
    labels,         \* kmeans.labels_ : cluster index (0-based) of each pixel
    centers,        \* kmeans.cluster_centers_ : centre of each cluster
    color_freq,     \* the (centre, count) list of extract_palette
    colors,         \* the list returned by extract_palette / given to categorize_colors
    idx,            \* 1-based position of the for loop of categorize_colors
    categorized,    \* the dict built by categorize_colors
    reordered,      \* a second ordering of colors
    recategorized,  \* categorize_colors(reordered)
    rgb,            \* argument of a single-colour function
    gray,           \* result of is_grayscale(rgb)
    hex,            \* result of rgb_to_hex(rgb)
    args_output,    \* args.output, a path (drawn where main first reads it)
    args_json,      \* args.json (drawn where main first reads it)
    css_output,     \* the generated CSS: the :root declarations and the usage example
    json_output,    \* the dict dumped to the JSON sidecar
    files,          \* the files written by the run: path -> content
    exit_code,      \* the status main returns / the interpreter exits with; -1 while running
    stages,         \* history: the pipeline stages entered so far, in order
    failed,         \* history: a step of the run has failed
    stdout,         \* the lines printed so far
    previous,       \* an earlier call of categorize_colors: its argument and its result
    lum,            \* result of get_luminance(rgb), in units of 1e-9; -1 before the call
    component_type, \* generate_component / generate_test_page: the component_type argument
    name,           \* generate_component: the name argument, a sequence of pieces
    korean,         \* generate_component: the korean argument
    go_handler,     \* generate_component: the go_handler argument
    output_dir,     \* generate_component: the output_dir argument (<<>> is None)
    html_content,   \* generate_component: the formatted HTML
    go_content,     \* generate_component: the formatted Go handler (<<>> is None)
    dirs,           \* the directories created by the run
    result,         \* what the function under check returned or raised; "none" before
    output_file,    \* generate_test_page: the output_file argument
    html,           \* generate_test_page: the formatted page
    template_dir,   \* analyze_templates.py: what --path names, with its files
    html_files,     \* analyze_templates: the list of files to scan
    file_idx,       \* 1-based position of the for loop of analyze_templates
    line_num,       \* line number of the for loop of analyze_template_file
    opportunities,  \* the list analyze_template_file returned for the last file
    all_opportunities, \* the dict of analyze_templates: path -> opportunities
    args_priority,  \* args.priority
    args_verbose    \* args.verbose

out_vars == <<args_output, args_json, css_output, json_output, files, exit_code>>

comp_vars == <<component_type, name, korean, go_handler, output_dir,
               html_content, go_content, dirs, result>>

page_vars == <<output_file, html>>

tmpl_vars == <<template_dir, html_files, file_idx, line_num, opportunities,
               all_opportunities, args_priority, args_verbose>>

\* the variables of the other scripts and of the repeated-call checks
ext_vars == <<previous, lum, comp_vars, page_vars, tmpl_vars>>

\* the variables that belong to analyze_colors.py alone
color_vars == <<image, num_colors, pixels, labels, centers, color_freq, colors,
                idx, categorized, reordered, recategorized, rgb, gray, hex,
                args_output, args_json, css_output, json_output, stages,
                previous, lum>>

vars == <<pc, image, num_colors, pixels, labels, centers, color_freq, colors,
          idx, categorized, reordered, recategorized, rgb, gray, hex,
          out_vars, stages, failed, stdout, ext_vars>>

----------------------------------------------------------------------------
(* Bounds of the model *)

MaxColors == 5
MaxReorder == 4
MaxPixels == 3
MaxK == 2
Window == 10

(* Program constants *)

ChannelMax == 255
GrayThreshold == 10
PrimaryCap == 2
SatNum == 3
SatDen == 10

WHITE == <<255, 255, 255>>
BLACK == <<0, 0, 0>>

Channel == 0..ChannelMax

\* colours the categorizer is exercised on: a mid gray, a dark colour that is
\* grayscale by the threshold yet has a large (max-min)/max, three saturated
\* colours (one just above 0.3), and a non-gray colour of saturation exactly 0.3
ColorSet ==
    { <<128, 128, 128>>, <<9, 1, 1>>, <<200, 50, 50>>, <<50, 50, 200>>,
      <<100, 80, 69>>, <<100, 80, 70>> }

\* pixels an image is made of
PixelSet ==
    { WHITE, BLACK, <<1, 0, 0>>, <<0, 1, 0>>, <<0, 0, 1>>, <<200, 50, 50>> }

SeqsUpTo(S, n) == UNION { [1..k -> S] : k \in 0..n }

Abs(x) == IF x < 0 THEN -x ELSE x

Max3(c) ==
    LET m == IF c[1] >= c[2] THEN c[1] ELSE c[2]
    IN  IF m >= c[3] THEN m ELSE c[3]

Min3(c) ==
    LET m == IF c[1] <= c[2] THEN c[1] ELSE c[2]
    IN  IF m <= c[3] THEN m ELSE c[3]

Count(c, s) == Cardinality({ i \in DOMAIN s : s[i] = c })

EmptyBuckets == [primary |-> <<>>, neutral |-> <<>>, accent |-> <<>>]

----------------------------------------------------------------------------
(* analyze_colors.py: the pure functions *)

is_grayscale_le(c) ==
    LET threshold == GrayThreshold
    IN  /\ Abs(c[1] - c[2]) <= threshold
        /\ Abs(c[2] - c[3]) <= threshold
        /\ Abs(c[1] - c[3]) <= threshold

\* is_grayscale(rgb, threshold=10); every call site uses the default threshold
is_grayscale(c) ==
    LET threshold == GrayThreshold
    IN  /\ Abs(c[1] - c[2]) < threshold
        /\ Abs(c[2] - c[3]) < threshold
        /\ Abs(c[1] - c[3]) < threshold

\* saturation = (max_val - min_val) / max_val if max_val > 0 else 0,
\* as the fraction <<numerator, denominator>>
saturation(c) ==
    LET max_val == Max3(c)
        min_val == Min3(c)
    IN  IF max_val > 0 THEN <<max_val - min_val, max_val>> ELSE <<0, 1>>

\* saturation > 0.3 ; with 8-bit channels the float quotient is within 1e-15
\* of the exact one and 0.3 is hit only by exact quotients of 3/10
is_saturated(c) == saturation(c)[1] * SatDen > SatNum * saturation(c)[2]

CategorizeOne_cap(cat, c) ==
    IF is_grayscale(c)
    THEN [cat EXCEPT !.neutral = Append(@, c)]
    ELSE IF is_saturated(c)
         THEN IF Len(cat.primary) <= PrimaryCap
              THEN [cat EXCEPT !.primary = Append(@, c)]
              ELSE [cat EXCEPT !.accent = Append(@, c)]
         ELSE [cat EXCEPT !.neutral = Append(@, c)]

CategorizeOne_drop(cat, c) ==
    IF is_grayscale(c)
    THEN [cat EXCEPT !.neutral = Append(@, c)]
    ELSE IF is_saturated(c)
         THEN IF Len(cat.primary) < PrimaryCap
              THEN [cat EXCEPT !.primary = Append(@, c)]
              ELSE [cat EXCEPT !.accent = Append(@, c)]
         ELSE cat

CategorizeOne_nogray(cat, c) ==
    IF is_saturated(c)
    THEN IF Len(cat.primary) < PrimaryCap
         THEN [cat EXCEPT !.primary = Append(@, c)]
         ELSE [cat EXCEPT !.accent = Append(@, c)]
    ELSE [cat EXCEPT !.neutral = Append(@, c)]

CategorizeOne_spill(cat, c) ==
    IF is_grayscale(c)
    THEN [cat EXCEPT !.neutral = Append(@, c)]
    ELSE IF is_saturated(c)
         THEN IF Len(cat.primary) < PrimaryCap
              THEN [cat EXCEPT !.primary = Append(@, c)]
              ELSE [cat EXCEPT !.neutral = Append(@, c)]
         ELSE [cat EXCEPT !.neutral = Append(@, c)]

CategorizeOne_swap(cat, c) ==
    IF is_grayscale(c)
    THEN [cat EXCEPT !.neutral = Append(@, c)]
    ELSE IF is_saturated(c)
         THEN IF Len(cat.accent) < PrimaryCap
              THEN [cat EXCEPT !.accent = Append(@, c)]
              ELSE [cat EXCEPT !.primary = Append(@, c)]
         ELSE [cat EXCEPT !.neutral = Append(@, c)]

\* one iteration of the for loop of categorize_colors
CategorizeOne(cat, c) ==
    IF is_grayscale(c)
    THEN [cat EXCEPT !.neutral = Append(@, c)]
    ELSE IF is_saturated(c)
         THEN IF Len(cat.primary) < PrimaryCap
              THEN [cat EXCEPT !.primary = Append(@, c)]
              ELSE [cat EXCEPT !.accent = Append(@, c)]
         ELSE [cat EXCEPT !.neutral = Append(@, c)]

RECURSIVE CategorizeFrom(_, _)
CategorizeFrom(cat, cs) ==
    IF cs = <<>> THEN cat
    ELSE CategorizeFrom(CategorizeOne(cat, Head(cs)), Tail(cs))

\* categorize_colors(colors) as a whole
categorize_colors(cs) == CategorizeFrom(EmptyBuckets, cs)

----------------------------------------------------------------------------
(* categorize_colors, one loop iteration per step *)

CategorizeStep ==
    /\ pc = "categorize"
    /\ idx <= Len(colors)
    /\ categorized' = CategorizeOne(categorized, colors[idx])
    /\ idx' = idx + 1
    /\ UNCHANGED <<ext_vars, pc, image, num_colors, pixels, labels, centers, color_freq,
                   colors, reordered, recategorized, rgb, gray,
                   hex, out_vars, stages, failed, stdout>>

CategorizeReturn ==
    /\ pc = "categorize"
    /\ idx > Len(colors)
    /\ pc' = "categorized"
    /\ UNCHANGED <<ext_vars, image, num_colors, pixels, labels, centers, color_freq, colors,
                   idx, categorized, reordered, recategorized, rgb, gray,
                   hex, out_vars, stages, failed, stdout>>

\* a second call of categorize_colors, on another ordering of the same colours
Reorder ==
    /\ pc = "categorized"
    /\ Len(colors) <= MaxReorder
    /\ \E p \in Permutations(1..Len(colors)) :
          /\ reordered' = [j \in 1..Len(colors) |-> colors[p[j]]]
          /\ recategorized' = categorize_colors(reordered')
    /\ pc' = "reordered"
    /\ UNCHANGED <<ext_vars, image, num_colors, pixels, labels, centers, color_freq, colors,
                   idx, categorized, rgb, gray,
                   hex, out_vars, stages, failed, stdout>>

\* the variables of generate_component.py before a call
InitComp ==
    /\ component_type = ""
    /\ name = <<>>
    /\ korean = FALSE
    /\ go_handler = FALSE
    /\ output_dir = <<>>
    /\ html_content = <<>>
    /\ go_content = <<>>
    /\ dirs = {}
    /\ result = "none"

\* the variables of test_component.py before a call
InitPage ==
    /\ output_file = <<>>
    /\ html = <<>>

\* the variables of analyze_templates.py before a run
InitTmpl ==
    /\ template_dir = [kind |-> "missing", entries |-> <<>>]
    /\ html_files = <<>>
    /\ file_idx = 1
    /\ line_num = 1
    /\ opportunities = <<>>
    /\ all_opportunities = <<>>
    /\ args_priority = FALSE
    /\ args_verbose = FALSE

\* no earlier call of categorize_colors
NoCall == [called |-> FALSE, input |-> <<>>, result |-> EmptyBuckets]

InitExt ==
    /\ previous = NoCall
    /\ lum = -1
    /\ InitComp
    /\ InitPage
    /\ InitTmpl

\* the variables of main's output steps before any of them has run
InitOut ==
    /\ InitExt
    /\ hex = <<>>
    /\ args_output = <<>>
    /\ args_json = FALSE
    /\ css_output = [vars |-> <<>>, usage |-> <<>>]
    /\ json_output = <<>>
    /\ files = <<>>
    /\ exit_code = -1
    /\ stages = <<>>
    /\ failed = FALSE
    /\ stdout = <<>>

InitCategorize ==
    /\ pc = "categorize"
    /\ colors \in SeqsUpTo(ColorSet, MaxColors)
    /\ idx = 1
    /\ categorized = EmptyBuckets
    /\ image = <<>>
    /\ num_colors = 0
    /\ pixels = <<>>
    /\ labels = <<>>
    /\ centers = <<>>
    /\ color_freq = <<>>
    /\ reordered = <<>>
    /\ recategorized = EmptyBuckets
    /\ rgb = BLACK
    /\ gray = FALSE
    /\ InitOut

NextCategorize == CategorizeStep \/ CategorizeReturn \/ Reorder

SpecCategorize == InitCategorize /\ [][NextCategorize]_vars

----------------------------------------------------------------------------
(* extract_palette *)

RemovePure_any(px, c) ==
    SelectSeq(px, LAMBDA q : ~(\E ch \in 1..3 : q[ch] = c[ch]))

\* pixels[~np.all(pixels == c, axis=1)]
RemovePure(px, c) ==
    SelectSeq(px, LAMBDA q : ~(\A ch \in 1..3 : q[ch] = c[ch]))

FilterPixels_whiteonly(img) == RemovePure(img, WHITE)

\* the two filter lines: pure white, then pure black
FilterPixels(img) == RemovePure(RemovePure(img, WHITE), BLACK)

\* positions of the pixels labelled k
Members(lab, k) == { i \in DOMAIN lab : lab[i] = k }

RECURSIVE ChannelSum(_, _, _, _, _)
\* sum of channel ch over the pixels at positions 1..n labelled k
ChannelSum(px, lab, k, ch, n) ==
    IF n = 0 THEN 0
    ELSE ChannelSum(px, lab, k, ch, n - 1) + (IF lab[n] = k THEN px[n][ch] ELSE 0)

\* the centre of a non-empty cluster: the mean of its members
Mean(px, lab, k) ==
    [sum |-> << ChannelSum(px, lab, k, 1, Len(px)),
                ChannelSum(px, lab, k, 2, Len(px)),
                ChannelSum(px, lab, k, 3, Len(px)) >>,
     n   |-> Cardinality(Members(lab, k))]

\* label_counts[k] : a Counter gives 0 for a label that never occurs
LabelCount(lab, k) == Cardinality(Members(lab, k))

\* tuple(map(int, color)) : int() truncates each channel of the centre
ToIntTuple(ctr) ==
    << ctr.sum[1] \div ctr.n, ctr.sum[2] \div ctr.n, ctr.sum[3] \div ctr.n >>

RECURSIVE InsertByFreq_unstable(_, _)
InsertByFreq_unstable(sorted, e) ==
    IF sorted = <<>> THEN <<e>>
    ELSE IF Head(sorted).count > e.count
         THEN <<Head(sorted)>> \o InsertByFreq_unstable(Tail(sorted), e)
         ELSE <<e>> \o sorted

RECURSIVE InsertByFreq(_, _)
\* e placed behind every entry whose count is at least its own
InsertByFreq(sorted, e) ==
    IF sorted = <<>> THEN <<e>>
    ELSE IF Head(sorted).count >= e.count
         THEN <<Head(sorted)>> \o InsertByFreq(Tail(sorted), e)
         ELSE <<e>> \o sorted

RECURSIVE SortFrom(_, _)
SortFrom(sorted, rest) ==
    IF rest = <<>> THEN sorted
    ELSE SortFrom(InsertByFreq(sorted, Head(rest)), Tail(rest))

\* color_freq.sort(key=lambda x: x[1], reverse=True) : list.sort is stable,
\* also with reverse=True
SortByFreq(cf) == SortFrom(<<>>, cf)

\* img = Image.open(...).convert('RGB'); thumbnail; reshape; the two filters
Sample ==
    /\ pc = "start"
    /\ pixels' = FilterPixels(image)
    /\ pc' = "sampled"
    /\ stages' = Append(stages, "sample")
    /\ stdout' = Append(stdout, "Analyzing")
    /\ UNCHANGED <<ext_vars, image, num_colors, labels, centers, color_freq, colors, idx,
                   categorized, reordered, recategorized, rgb, gray,
                   hex, out_vars, failed>>

\* KMeans(n_clusters=num_colors, ...).fit(pixels).  The library is not part
\* of the program: any labelling of the pixels may come back; a non-empty
\* cluster's centre is the mean of its members, an empty cluster's centre is
\* one of the sample pixels.
KMeansFit ==
    /\ pc = "sampled"
    /\ Len(pixels) >= num_colors
    /\ \E lab \in [1..Len(pixels) -> 0..(num_colors - 1)] :
          \E seed \in [{ k \in 0..(num_colors - 1) : Members(lab, k) = {} }
                          -> 1..Len(pixels)] :
             /\ labels' = lab
             /\ centers' = [k \in 0..(num_colors - 1) |->
                              IF Members(lab, k) # {}
                              THEN Mean(pixels, lab, k)
                              ELSE [sum |-> pixels[seed[k]], n |-> 1]]
    /\ pc' = "fitted"
    /\ stages' = Append(stages, "cluster")
    /\ UNCHANGED <<ext_vars, image, num_colors, pixels, color_freq, colors, idx,
                   categorized, reordered, recategorized, rgb, gray,
                   hex, out_vars, failed, stdout>>

KMeansRaise_retry ==
    /\ pc = "sampled"
    /\ Len(pixels) < num_colors
    /\ pc' = "start"
    /\ stages' = Append(stages, "cluster")
    /\ UNCHANGED <<ext_vars, image, num_colors, pixels, labels, centers, color_freq, colors,
                   idx, categorized, reordered, recategorized, rgb, gray,
                   hex, out_vars, failed, stdout>>

\* KMeans.fit raises ValueError when there are fewer samples than clusters;
\* nothing catches it
KMeansRaise ==
    /\ pc = "sampled"
    /\ Len(pixels) < num_colors
    /\ pc' = "raised"
    /\ stages' = Append(stages, "cluster")
    /\ failed' = TRUE
    /\ UNCHANGED <<ext_vars, image, num_colors, pixels, labels, centers, color_freq, colors,
                   idx, categorized, reordered, recategorized, rgb, gray,
                   hex, out_vars, stdout>>

\* color_freq = [(colors[i], label_counts[i]) ...]; sort; return the int tuples.
\* The field cluster records i, the entry's position before the sort.
ReturnPalette ==
    /\ pc = "fitted"
    /\ color_freq' = SortByFreq([i \in 1..num_colors |->
                                   [center  |-> centers[i - 1],
                                    count   |-> LabelCount(labels, i - 1),
                                    cluster |-> i - 1]])
    /\ colors' = [j \in 1..num_colors |-> ToIntTuple(color_freq'[j].center)]
    /\ pc' = "extracted"
    /\ UNCHANGED <<ext_vars, image, num_colors, pixels, labels, centers, idx, categorized,
                   reordered, recategorized, rgb, gray,
                   hex, out_vars, stages, failed, stdout>>

\* main: colors is not None; categorized = categorize_colors(colors).
\* The locals of extract_palette are gone once it has returned.
MainCategorize ==
    /\ pc = "extracted"
    /\ idx' = 1
    /\ categorized' = EmptyBuckets
    /\ pc' = "categorize"
    /\ image' = <<>>
    /\ pixels' = <<>>
    /\ labels' = <<>>
    /\ centers' = <<>>
    /\ color_freq' = <<>>
    /\ stages' = Append(stages, "categorize")
    /\ stdout' = Append(stdout, "Extracted")
    /\ UNCHANGED <<ext_vars, num_colors, colors, reordered, recategorized, rgb, gray,
                   hex, out_vars, failed>>

----------------------------------------------------------------------------
(* rgb_to_hex, get_luminance and the emitter *)

HexDigits ==
    << "0", "1", "2", "3", "4", "5", "6", "7",
       "8", "9", "a", "b", "c", "d", "e", "f" >>

RECURSIVE HexOf(_)
\* the lowercase hexadecimal digits of v, most significant first
HexOf(v) ==
    IF v < 16 THEN << HexDigits[v + 1] >>
    ELSE HexOf(v \div 16) \o << HexDigits[(v % 16) + 1] >>

Format02x_nopad(v) == HexOf(v)

\* '{:02x}'.format(v) : the digits of v, padded with zeros to a width of 2
Format02x(v) ==
    LET d == HexOf(v)
    IN  IF Len(d) < 2 THEN <<"0">> \o d ELSE d

\* a string is the sequence of its characters; int() of an int is the int
rgb_to_hex(c) == <<"#">> \o Format02x(c[1]) \o Format02x(c[2]) \o Format02x(c[3])

\* per channel value v in 0..255, in units of 1e-5 (rounded):
\*   x = v / 255.0 ;  x / 12.92 if x <= 0.03928 else ((x + 0.055) / 1.055) ** 2.4
Linearized ==
    << 0, 30, 61, 91, 121, 152, 182, 212,
       243, 273, 304, 335, 368, 402, 439, 478,
       518, 561, 605, 651, 700, 750, 802, 857,
       913, 972, 1033, 1096, 1161, 1229, 1298, 1370,
       1444, 1521, 1600, 1681, 1764, 1850, 1938, 2029,
       2122, 2217, 2315, 2416, 2519, 2624, 2732, 2843,
       2956, 3071, 3190, 3310, 3434, 3560, 3689, 3820,
       3955, 4092, 4231, 4374, 4519, 4667, 4817, 4971,
       5127, 5286, 5448, 5613, 5781, 5951, 6125, 6301,
       6480, 6663, 6848, 7036, 7227, 7421, 7619, 7819,
       8022, 8228, 8438, 8650, 8866, 9084, 9306, 9531,
       9759, 9990, 10224, 10462, 10702, 10946, 11193, 11444,
       11697, 11954, 12214, 12477, 12744, 13014, 13287, 13563,
       13843, 14126, 14413, 14703, 14996, 15293, 15593, 15896,
       16203, 16513, 16827, 17144, 17465, 17789, 18116, 18447,
       18782, 19120, 19462, 19807, 20156, 20508, 20864, 21223,
       21586, 21953, 22323, 22697, 23074, 23455, 23840, 24228,
       24620, 25016, 25415, 25818, 26225, 26636, 27050, 27468,
       27889, 28315, 28744, 29177, 29614, 30054, 30499, 30947,
       31399, 31855, 32314, 32778, 33245, 33716, 34191, 34670,
       35153, 35640, 36131, 36625, 37124, 37626, 38133, 38643,
       39157, 39676, 40198, 40724, 41254, 41789, 42327, 42869,
       43415, 43966, 44520, 45079, 45641, 46208, 46778, 47353,
       47932, 48515, 49102, 49693, 50289, 50888, 51492, 52100,
       52712, 53328, 53948, 54572, 55201, 55834, 56471, 57112,
       57758, 58408, 59062, 59720, 60383, 61050, 61721, 62396,
       63076, 63760, 64448, 65141, 65837, 66539, 67244, 67954,
       68669, 69387, 70110, 70838, 71569, 72306, 73046, 73791,
       74540, 75294, 76052, 76815, 77582, 78354, 79130, 79910,
       80695, 81485, 82279, 83077, 83880, 84687, 85499, 86316,
       87137, 87962, 88792, 89627, 90466, 91310, 92158, 93011,
       93869, 94731, 95597, 96469, 97345, 98225, 99110, 100000 >>

get_luminance_rounded(c) ==
    (((2126 * Linearized[c[1] + 1] + 7152 * Linearized[c[2] + 1]
        + 722 * Linearized[c[3] + 1]) + 500000) \div 1000000) * 1000000

\* 0.2126 * r + 0.7152 * g + 0.0722 * b, in units of 1e-9
get_luminance(c) ==
    2126 * Linearized[c[1] + 1] + 7152 * Linearized[c[2] + 1]
      + 722 * Linearized[c[3] + 1]

RECURSIVE InsertByLum_desc(_, _)
InsertByLum_desc(sorted, c) ==
    IF sorted = <<>> THEN <<c>>
    ELSE IF get_luminance(Head(sorted)) >= get_luminance(c)
         THEN <<Head(sorted)>> \o InsertByLum_desc(Tail(sorted), c)
         ELSE <<c>> \o sorted

RECURSIVE InsertByLum(_, _)
\* c placed behind every colour whose luminance is at most its own
InsertByLum(sorted, c) ==
    IF sorted = <<>> THEN <<c>>
    ELSE IF get_luminance(Head(sorted)) <= get_luminance(c)
         THEN <<Head(sorted)>> \o InsertByLum(Tail(sorted), c)
         ELSE <<c>> \o sorted

RECURSIVE SortLumFrom(_, _)
SortLumFrom(sorted, rest) ==
    IF rest = <<>> THEN sorted
    ELSE SortLumFrom(InsertByLum(sorted, Head(rest)), Tail(rest))

\* sorted(neutral, key=get_luminance) : ascending and stable
SortByLum(cs) == SortLumFrom(<<>>, cs)

NeutralName_swapped(c, i) ==
    IF get_luminance(c) > 700000000 THEN [kind |-> "dark", n |-> i]
    ELSE IF get_luminance(c) < 300000000 THEN [kind |-> "light", n |-> i]
    ELSE [kind |-> "neutral", n |-> i]

\* the name of the i-th neutral: luminance > 0.7, < 0.3, else
NeutralName(c, i) ==
    IF get_luminance(c) > 700000000 THEN [kind |-> "light", n |-> i]
    ELSE IF get_luminance(c) < 300000000 THEN [kind |-> "dark", n |-> i]
    ELSE [kind |-> "neutral", n |-> i]

Declarations_shared(cat, neutrals) ==
    [i \in 1..Len(cat.primary) |->
        [name |-> [kind |-> "primary", n |-> i], value |-> rgb_to_hex(cat.primary[i])]]
    \o [i \in 1..Len(neutrals) |->
        [name |-> [kind |-> "neutral", n |-> 1], value |-> rgb_to_hex(neutrals[i])]]
    \o [i \in 1..Len(cat.accent) |->
        [name |-> [kind |-> "accent", n |-> i], value |-> rgb_to_hex(cat.accent[i])]]

\* the three enumerate(..., 1) loops: one declaration "--color-<kind>-<n>: <value>;"
\* per colour, primary, then the sorted neutrals, then accent
Declarations(cat, neutrals) ==
    [i \in 1..Len(cat.primary) |->
        [name |-> [kind |-> "primary", n |-> i], value |-> rgb_to_hex(cat.primary[i])]]
    \o [i \in 1..Len(neutrals) |->
        [name |-> NeutralName(neutrals[i], i), value |-> rgb_to_hex(neutrals[i])]]
    \o [i \in 1..Len(cat.accent) |->
        [name |-> [kind |-> "accent", n |-> i], value |-> rgb_to_hex(cat.accent[i])]]

\* the declarations of the :root block, in order (the fixed comment, ":root {"
\* and "}" lines around them carry no data)
generate_css_variables(cat) == Declarations(cat, SortByLum(cat.neutral))

RECURSIVE MaxByLumFrom(_, _)
\* max(cs, key=get_luminance): the first colour of greatest luminance
MaxByLumFrom(best, rest) ==
    IF rest = <<>> THEN best
    ELSE MaxByLumFrom(IF get_luminance(Head(rest)) > get_luminance(best)
                      THEN Head(rest) ELSE best, Tail(rest))

RECURSIVE MinByLumFrom(_, _)
\* min(cs, key=get_luminance): the first colour of least luminance
MinByLumFrom(best, rest) ==
    IF rest = <<>> THEN best
    ELSE MinByLumFrom(IF get_luminance(Head(rest)) < get_luminance(best)
                      THEN Head(rest) ELSE best, Tail(rest))

NoFallback == <<>>

UsageLine(rule, prop, kind, n, fallback) ==
    [rule |-> rule, prop |-> prop, ref |-> [kind |-> kind, n |-> n],
     fallback |-> fallback]

generate_usage_example_first(cat) ==
    (IF cat.neutral # <<>>
     THEN << UsageLine("body", "background-color", "light", 1,
                       rgb_to_hex(Head(cat.neutral))) >>
     ELSE <<>>)
    \o (IF cat.neutral # <<>>
        THEN << UsageLine("body", "color", "dark", 1,
                          rgb_to_hex(cat.neutral[Len(cat.neutral)])) >>
        ELSE <<>>)
    \o (IF cat.primary # <<>>
        THEN << UsageLine("button, a", "background-color", "primary", 1, NoFallback),
                UsageLine("button, a", "color", "white", 0, NoFallback) >>
        ELSE <<>>)
    \o (IF cat.accent # <<>>
        THEN << UsageLine(".highlight", "border-left", "accent", 1, NoFallback) >>
        ELSE <<>>)

\* the property lines of the usage example, in order; ref is the custom
\* property a line names in var(...) (kind "white": the literal white)
generate_usage_example(cat) ==
    (IF cat.neutral # <<>>
     THEN << UsageLine("body", "background-color", "light", 1,
                       rgb_to_hex(MaxByLumFrom(Head(cat.neutral), Tail(cat.neutral)))) >>
     ELSE <<>>)
    \o (IF cat.neutral # <<>>
        THEN << UsageLine("body", "color", "dark", 1,
                          rgb_to_hex(MinByLumFrom(Head(cat.neutral), Tail(cat.neutral)))) >>
        ELSE <<>>)
    \o (IF cat.primary # <<>>
        THEN << UsageLine("button, a", "background-color", "primary", 1, NoFallback),
                UsageLine("button, a", "color", "white", 0, NoFallback) >>
        ELSE <<>>)
    \o (IF cat.accent # <<>>
        THEN << UsageLine(".highlight", "border-left", "accent", 1, NoFallback) >>
        ELSE <<>>)

HexList(cs) == [i \in 1..Len(cs) |-> rgb_to_hex(cs[i])]

BuildJson_sorted(cat, cs) ==
    [primary |-> HexList(cat.primary), neutral |-> HexList(cat.neutral),
     accent |-> HexList(cat.accent),
     all_colors |-> HexList(cat.primary \o cat.neutral \o cat.accent)]

\* the json_output dict of main
BuildJson(cat, cs) ==
    [primary |-> HexList(cat.primary), neutral |-> HexList(cat.neutral),
     accent |-> HexList(cat.accent), all_colors |-> HexList(cs)]

\* a path is the sequence of its pieces, each occurrence of ".css" a piece
\* of its own; str.replace(old, new) replaces every occurrence
StrReplace(path, old, new) ==
    [i \in 1..Len(path) |-> IF path[i] = old THEN new ELSE path[i]]

\* values of --output: the default, a name without ".css", and a path whose
\* directory also holds ".css"
OutputPaths ==
    { << "color_palette", ".css" >>, << "palette", ".txt" >>,
      << "skin", ".css", "/", "palette", ".css" >> }

\* open(path, 'w') and the write: the file at path now holds content
WriteFile(fs, path, content) ==
    [q \in (DOMAIN fs) \cup {path} |-> IF q = path THEN content ELSE fs[q]]

----------------------------------------------------------------------------
(* main after categorize_colors, and the ways a run ends *)

\* the three imports fail: extract_palette prints the instructions, returns None
ImportFail ==
    /\ pc = "start"
    /\ stdout' = stdout \o << "Analyzing",
                              "Error: Required libraries not installed. Install with:",
                              "  pip install Pillow numpy scikit-learn" >>
    /\ failed' = TRUE
    /\ pc' = "no_palette"
    /\ UNCHANGED <<ext_vars, image, num_colors, pixels, labels, centers, color_freq, colors,
                   idx, categorized, reordered, recategorized, rgb, gray,
                   hex, out_vars, stages>>

MainReturnNone_zero ==
    /\ pc = "no_palette"
    /\ exit_code' = 0
    /\ pc' = "exit"
    /\ UNCHANGED <<ext_vars, image, num_colors, pixels, labels, centers, color_freq, colors,
                   idx, categorized, reordered, recategorized, rgb, gray,
                   hex, args_output, args_json, css_output, json_output, files,
                   stages, failed, stdout>>

\* main: if colors is None: return 1
MainReturnNone ==
    /\ pc = "no_palette"
    /\ exit_code' = 1
    /\ pc' = "exit"
    /\ UNCHANGED <<ext_vars, image, num_colors, pixels, labels, centers, color_freq, colors,
                   idx, categorized, reordered, recategorized, rgb, gray,
                   hex, args_output, args_json, css_output, json_output, files,
                   stages, failed, stdout>>

\* Image.open raises (unreadable or undecodable path); nothing catches it
ImageOpenRaise ==
    /\ pc = "start"
    /\ stages' = Append(stages, "sample")
    /\ stdout' = Append(stdout, "Analyzing")
    /\ failed' = TRUE
    /\ pc' = "raised"
    /\ UNCHANGED <<ext_vars, image, num_colors, pixels, labels, centers, color_freq, colors,
                   idx, categorized, reordered, recategorized, rgb, gray,
                   hex, out_vars>>

\* main: the three counts are printed, the CSS text is generated
GenerateCss ==
    /\ pc = "categorized"
    /\ css_output' = [vars  |-> generate_css_variables(categorized),
                      usage |-> generate_usage_example(categorized)]
    /\ stages' = Append(stages, "emit")
    /\ stdout' = Append(stdout, "Counts")
    /\ pc' = "generated"
    /\ UNCHANGED <<ext_vars, image, num_colors, pixels, labels, centers, color_freq, colors,
                   idx, categorized, reordered, recategorized, rgb, gray,
                   hex, args_output, args_json, json_output, files, exit_code,
                   failed>>

\* with open(args.output, 'w') as f: f.write(css_output)
SaveCss ==
    /\ pc = "generated"
    /\ \E path \in OutputPaths :
          /\ args_output' = path
          /\ files' = WriteFile(files, path, [kind |-> "css", body |-> css_output])
    /\ stdout' = Append(stdout, "CSS variables saved")
    /\ pc' = "css_saved"
    /\ UNCHANGED <<ext_vars, image, num_colors, pixels, labels, centers, color_freq, colors,
                   idx, categorized, reordered, recategorized, rgb, gray,
                   hex, args_json, css_output, json_output, exit_code,
                   stages, failed>>

\* open(args.output, 'w') raises OSError; nothing catches it
SaveCssRaise ==
    /\ pc = "generated"
    /\ \E path \in OutputPaths : args_output' = path
    /\ failed' = TRUE
    /\ pc' = "raised"
    /\ UNCHANGED <<ext_vars, image, num_colors, pixels, labels, centers, color_freq, colors,
                   idx, categorized, reordered, recategorized, rgb, gray,
                   hex, args_json, css_output, json_output, files, exit_code,
                   stages, stdout>>

\* if args.json: false
SkipJson ==
    /\ pc = "css_saved"
    /\ args_json' = FALSE
    /\ pc' = "json_done"
    /\ UNCHANGED <<ext_vars, image, num_colors, pixels, labels, centers, color_freq, colors,
                   idx, categorized, reordered, recategorized, rgb, gray,
                   hex, args_output, css_output, json_output, files, exit_code,
                   stages, failed, stdout>>

\* if args.json: the dict is built, json_file = args.output.replace('.css', '.json'),
\* the dict is dumped to json_file
SaveJson ==
    /\ pc = "css_saved"
    /\ args_json' = TRUE
    /\ json_output' = BuildJson(categorized, colors)
    /\ LET json_file == StrReplace(args_output, ".css", ".json")
       IN  files' = WriteFile(files, json_file,
                              [kind |-> "json", body |-> json_output'])
    /\ stdout' = Append(stdout, "Color data saved")
    /\ pc' = "json_done"
    /\ UNCHANGED <<ext_vars, image, num_colors, pixels, labels, centers, color_freq, colors,
                   idx, categorized, reordered, recategorized, rgb, gray,
                   hex, args_output, css_output, exit_code, stages, failed>>

\* open(json_file, 'w') raises OSError (a path other than the one just
\* written); nothing catches it
SaveJsonRaise ==
    /\ pc = "css_saved"
    /\ StrReplace(args_output, ".css", ".json") # args_output
    /\ args_json' = TRUE
    /\ json_output' = BuildJson(categorized, colors)
    /\ failed' = TRUE
    /\ pc' = "raised"
    /\ UNCHANGED <<ext_vars, image, num_colors, pixels, labels, centers, color_freq, colors,
                   idx, categorized, reordered, recategorized, rgb, gray,
                   hex, args_output, css_output, files, exit_code, stages, stdout>>

\* the colour preview is printed; return 0
MainReturnZero ==
    /\ pc = "json_done"
    /\ stdout' = Append(stdout, "Color Palette:")
    /\ exit_code' = 0
    /\ pc' = "exit"
    /\ UNCHANGED <<ext_vars, image, num_colors, pixels, labels, centers, color_freq, colors,
                   idx, categorized, reordered, recategorized, rgb, gray,
                   hex, args_output, args_json, css_output, json_output, files,
                   stages, failed>>

\* an exception leaves main and exit(main()): the interpreter exits with 1
Uncaught ==
    /\ pc = "raised"
    /\ exit_code' = 1
    /\ pc' = "exit"
    /\ UNCHANGED <<ext_vars, image, num_colors, pixels, labels, centers, color_freq, colors,
                   idx, categorized, reordered, recategorized, rgb, gray,
                   hex, args_output, args_json, css_output, json_output, files,
                   stages, failed, stdout>>

Init ==
    /\ pc = "start"
    /\ image \in SeqsUpTo(PixelSet, MaxPixels)
    /\ num_colors \in 1..MaxK
    /\ pixels = <<>>
    /\ labels = <<>>
    /\ centers = <<>>
    /\ color_freq = <<>>
    /\ colors = <<>>
    /\ idx = 1
    /\ categorized = EmptyBuckets
    /\ reordered = <<>>
    /\ recategorized = EmptyBuckets
    /\ rgb = BLACK
    /\ gray = FALSE
    /\ InitOut

Next ==
    \/ ImportFail
    \/ MainReturnNone
    \/ ImageOpenRaise
    \/ Sample
    \/ KMeansFit
    \/ KMeansRaise
    \/ ReturnPalette
    \/ MainCategorize
    \/ CategorizeStep
    \/ CategorizeReturn
    \/ GenerateCss
    \/ SaveCss
    \/ SaveCssRaise
    \/ SkipJson
    \/ SaveJson
    \/ SaveJsonRaise
    \/ MainReturnZero
    \/ Uncaught

Spec == Init /\ [][Next]_vars

----------------------------------------------------------------------------
(* the categorizer and the emitter of main on chosen colour lists *)

MaxEmit == 4

\* two light grays, a mid gray, a dark gray and three saturated colours
EmitColorSet ==
    { <<240, 240, 240>>, <<250, 250, 250>>, <<160, 160, 160>>, <<40, 40, 40>>,
      <<200, 50, 50>>, <<50, 50, 200>>, <<50, 200, 50>> }

InitEmit ==
    /\ pc = "categorize"
    /\ colors \in SeqsUpTo(EmitColorSet, MaxEmit)
    /\ idx = 1
    /\ categorized = EmptyBuckets
    /\ image = <<>>
    /\ num_colors = 0
    /\ pixels = <<>>
    /\ labels = <<>>
    /\ centers = <<>>
    /\ color_freq = <<>>
    /\ reordered = <<>>
    /\ recategorized = EmptyBuckets
    /\ rgb = BLACK
    /\ gray = FALSE
    /\ InitOut

NextEmit ==
    \/ CategorizeStep
    \/ CategorizeReturn
    \/ GenerateCss
    \/ SaveCss
    \/ SaveCssRaise
    \/ SkipJson
    \/ SaveJson
    \/ SaveJsonRaise
    \/ MainReturnZero
    \/ Uncaught

SpecEmit == InitEmit /\ [][NextEmit]_vars

----------------------------------------------------------------------------
(* is_grayscale and rgb_to_hex on single colours *)

\* channel values within Window of v, and the two ends of the range
Near(v) == ((v - Window)..(v + Window) \cap Channel) \cup {0, ChannelMax}

ApplyIsGrayscale ==
    /\ pc = "color"
    /\ gray' = is_grayscale(rgb)
    /\ pc' = "color_done"
    /\ UNCHANGED <<ext_vars, image, num_colors, pixels, labels, centers, color_freq, colors,
                   idx, categorized, reordered, recategorized, rgb,
                   hex, out_vars, stages, failed, stdout>>

ApplyRgbToHex ==
    /\ pc = "color"
    /\ hex' = rgb_to_hex(rgb)
    /\ pc' = "hex_done"
    /\ UNCHANGED <<ext_vars, image, num_colors, pixels, labels, centers, color_freq, colors,
                   idx, categorized, reordered, recategorized, rgb, gray,
                   out_vars, stages, failed, stdout>>

ApplyGetLuminance ==
    /\ pc = "color"
    /\ lum' = get_luminance(rgb)
    /\ pc' = "lum_done"
    /\ UNCHANGED <<image, num_colors, pixels, labels, centers, color_freq, colors,
                   idx, categorized, reordered, recategorized, rgb, gray, hex,
                   out_vars, stages, failed, stdout, previous, comp_vars,
                   page_vars, tmpl_vars>>

InitColor ==
    /\ pc = "color"
    /\ \/ \E r \in Channel : \E g \in Near(r), b \in Near(r) : rgb = <<r, g, b>>
       \/ rgb = <<18, 52, 86>>
    /\ gray = FALSE
    /\ image = <<>>
    /\ num_colors = 0
    /\ pixels = <<>>
    /\ labels = <<>>
    /\ centers = <<>>
    /\ color_freq = <<>>
    /\ colors = <<>>
    /\ idx = 1
    /\ categorized = EmptyBuckets
    /\ reordered = <<>>
    /\ recategorized = EmptyBuckets
    /\ InitOut

NextColor == ApplyIsGrayscale \/ ApplyRgbToHex \/ ApplyGetLuminance

SpecColor == InitColor /\ [][NextColor]_vars

----------------------------------------------------------------------------
(* categorize_colors called twice on the same list *)

MaxRecall == 4

\* a second call whose buckets are the ones the first call filled
CallAgain_shared ==
    /\ pc = "categorized"
    /\ ~previous.called
    /\ previous' = [called |-> TRUE, input |-> colors, result |-> categorized]
    /\ idx' = 1
    /\ pc' = "categorize"
    /\ UNCHANGED <<image, num_colors, pixels, labels, centers, color_freq, colors,
                   categorized, reordered, recategorized, rgb, gray, hex, out_vars,
                   stages, failed, stdout, lum, comp_vars, page_vars, tmpl_vars>>

\* the caller keeps the first result and calls categorize_colors(colors)
\* again: the function binds a fresh dict of three empty lists and starts
\* its loop at the first colour
CallAgain ==
    /\ pc = "categorized"
    /\ ~previous.called
    /\ previous' = [called |-> TRUE, input |-> colors, result |-> categorized]
    /\ categorized' = EmptyBuckets
    /\ idx' = 1
    /\ pc' = "categorize"
    /\ UNCHANGED <<image, num_colors, pixels, labels, centers, color_freq, colors,
                   reordered, recategorized, rgb, gray, hex, out_vars,
                   stages, failed, stdout, lum, comp_vars, page_vars, tmpl_vars>>

InitRecall ==
    /\ pc = "categorize"
    /\ colors \in SeqsUpTo(ColorSet, MaxRecall)
    /\ idx = 1
    /\ categorized = EmptyBuckets
    /\ image = <<>>
    /\ num_colors = 0
    /\ pixels = <<>>
    /\ labels = <<>>
    /\ centers = <<>>
    /\ color_freq = <<>>
    /\ reordered = <<>>
    /\ recategorized = EmptyBuckets
    /\ rgb = BLACK
    /\ gray = FALSE
    /\ InitOut

NextRecall == CategorizeStep \/ CategorizeReturn \/ CallAgain

SpecRecall == InitRecall /\ [][NextRecall]_vars

----------------------------------------------------------------------------
(* htmx-component-builder: str.format *)
(*                                                                         *)
(* A template is the sequence of its items, in order: an escaped brace     *)
(* "{{" or "}}", a replacement field "{name}", a brace that is neither     *)
(* (LoneL, LoneR), or the text run between two of these.  A text run is    *)
(* written "~" unless it opens the template; a field whose content is not  *)
(* an identifier is written F("~").  A value is a sequence of pieces and   *)
(* is copied into the result without being parsed.                         *)

T(s) == << "text", s >>

F(n) == << "field", n >>

LB == << "escape", "{" >>

RB == << "escape", "}" >>

LoneL == << "lone", "{" >>

LoneR == << "lone", "}" >>

NoError == ""

\* the exception str.format raises on one item of a template, if any
ItemError(item, params) ==
    IF item[1] = "lone" THEN "ValueError"
    ELSE IF item[1] = "field" /\ item[2] \notin DOMAIN params THEN "KeyError"
    ELSE NoError

\* what str.format puts in the result for one item
ItemText(item, params) ==
    IF item[1] = "field" THEN params[item[2]] ELSE << item[2] >>

\* str.format(**params): the exception of the first item that has one, else
\* the result as the sequence of its segments, one per item
Format(t, params) ==
    LET bad == { i \in DOMAIN t : ItemError(t[i], params) # NoError }
    IN  IF bad # {}
        THEN [err |-> ItemError(t[CHOOSE i \in bad : \A j \in bad : i <= j], params),
              out |-> <<>>]
        ELSE [err |-> NoError, out |-> [i \in DOMAIN t |-> ItemText(t[i], params)]]

RECURSIVE Flatten(_)
\* the pieces of a sequence of segments
Flatten(segs) == IF segs = <<>> THEN <<>> ELSE Head(segs) \o Flatten(Tail(segs))

----------------------------------------------------------------------------
(* generate_component.py: the templates and their parameters.  The Korean  *)
(* message texts are written "ko:" and the parameter's name.               *)

SearchHtml ==
    << T("<!-- Live Search Component -->"), F("timestamp"), T("~"),
       F("api_endpoint"), T("~"), F("debounce"), T("~"), F("target_id"),
       T("~"), F("indicator_id"), T("~"), F("input_id"), T("~"),
       F("label_text"), T("~"), F("input_id"), T("~"),
       F("placeholder_text"), T("~"), F("aria_label"), T("~"),
       F("button_label"), T("~"), F("target_id"), T("~"),
       F("indicator_id"), T("~"), F("loading_text"), T("~"),
       F("ime_script"), T("~") >>

SearchGoHandler ==
    << T("package handlers // search"), F("HandlerName"), T("~"),
       F("api_endpoint"), T("~"), F("HandlerName"), T("~"), LB, T("~"), LB,
       T("~"), F("empty_message"), T("~"), RB, T("~"), LB, T("~"),
       F("error_message"), T("~"), RB, T("~"), LB, T("~"), RB, T("~"), LB,
       RB, LB, T("~"), RB, T("~"), LB, T("~"), RB, T("~"), RB, T("~") >>

SearchParams ==
    "api_endpoint" :> << "/api/", "search" >> @@
    "target_id" :> << "search-results" >> @@
    "indicator_id" :> << "search-loading" >> @@
    "input_id" :> << "search-input" >> @@
    "debounce" :> << "500" >> @@
    "label_text" :> << "ko:label_text" >> @@
    "placeholder_text" :> << "ko:placeholder_text" >> @@
    "aria_label" :> << "ko:aria_label" >> @@
    "button_label" :> << "ko:button_label" >> @@
    "loading_text" :> << "ko:loading_text" >> @@
    "empty_message" :> << "ko:empty_message" >> @@
    "error_message" :> << "ko:error_message" >>

InfiniteScrollHtml ==
    << T("<!-- Infinite Scroll Component -->"), F("timestamp"), T("~"),
       F("container_id"), T("~"), F("container_class"), T("~"), LB, LB,
       T("~"), F("ContentVar"), RB, RB, T("~"), LB, LB, T("~"),
       F("item_template"), T("~"), RB, RB, T("~"), LB, LB, T("~"), RB, RB,
       T("~"), F("api_endpoint"), T("~"), LB, LB, T("~"), RB, RB, T("~"),
       F("container_id"), T("~"), F("indicator_id"), T("~"),
       F("indicator_id"), T("~"), F("loading_text"), T("~"), LB, LB,
       T("~"), RB, RB, T("~"), F("end_message"), T("~"), LB, LB, T("~"),
       RB, RB, T("~") >>

InfiniteScrollGoHandler ==
    << T("package handlers // infinite-scroll"), F("HandlerName"), T("~"),
       F("api_endpoint"), T("~"), F("HandlerName"), T("~"), LB, T("~"), LB,
       T("~"), RB, T("~"), F("PageSize"), T("~"), LB, T("~"),
       F("error_message"), T("~"), RB, T("~"), LB, T("~"), RB, T("~"), LB,
       T("~"), RB, T("~"), F("item_template"), T("~"), LB, RB, LB, T("~"),
       F("ContentVar"), T("~"), RB, T("~"), LB, T("~"), RB, T("~"), RB,
       T("~") >>

InfiniteScrollParams ==
    "container_id" :> << "content-list" >> @@
    "container_class" :> << "content-previews" >> @@
    "ContentVar" :> << "Contents" >> @@
    "item_template" :> << "content-preview-regular" >> @@
    "api_endpoint" :> << "/api/", "content" >> @@
    "indicator_id" :> << "scroll-loading" >> @@
    "loading_text" :> << "ko:loading_text" >> @@
    "end_message" :> << "ko:end_message" >> @@
    "error_message" :> << "ko:error_message" >> @@
    "PageSize" :> << "20" >>

ModalHtml ==
    << T("<!-- Modal Component -->"), F("timestamp"), T("~"),
       F("content_url"), T("~"), F("api_endpoint"), T("~"), F("modal_id"),
       T("~"), F("trigger_class"), T("~"), F("trigger_text"), T("~"),
       F("modal_id"), T("~"), LB, LB, T("~"), RB, RB, T("~"),
       F("modal_id"), T("~"), F("close_label"), T("~"), LB, LB, T("~"), RB,
       RB, T("~"), F("modal_id"), T("~"), F("confirm_text"), T("~"), LB,
       T("~"), RB, T("~"), LB, T("~"), RB, T("~"), LB, T("~"), RB, T("~"),
       LB, T("~"), RB, T("~"), LB, T("~"), RB, T("~"), LB, T("~"), RB,
       T("~"), LB, T("~"), RB, T("~"), LB, T("~"), F("modal_id"), T("~"),
       LB, T("~"), RB, T("~"), RB, T("~"), LB, T("~"), LB, T("~"),
       F("modal_id"), T("~"), RB, T("~"), RB, T("~") >>

ModalGoHandler ==
    << T("package handlers // modal"), F("HandlerName"), T("~"),
       F("api_endpoint"), T("~"), F("HandlerName"), T("~"), LB, T("~"), LB,
       T("~"), F("error_message"), T("~"), RB, T("~"), LB, T("~"),
       F("not_found_message"), T("~"), RB, T("~"), LB, RB, LB, T("~"), RB,
       T("~"), LB, T("~"), RB, T("~"), RB, T("~") >>

ModalParams ==
    "modal_id" :> << "content-modal" >> @@
    "api_endpoint" :> << "/api/", "content/", "{", "id", "}", "/modal" >> @@
    "content_url" :> << "/content/", "{", "id", "}" >> @@
    "trigger_class" :> << "content-link" >> @@
    "trigger_text" :> << "{", "{", ".Title", "}", "}" >> @@
    "close_label" :> << "ko:close_label" >> @@
    "confirm_text" :> << "ko:confirm_text" >> @@
    "error_message" :> << "ko:error_message" >> @@
    "not_found_message" :> << "ko:not_found_message" >>

FormHtml ==
    << T("<!-- Server-Validated Form Component -->"), F("timestamp"),
       T("~"), F("api_endpoint"), T("~"), F("form_id"), T("~"),
       F("indicator_id"), T("~"), F("form_id"), T("~"), F("field_id"),
       T("~"), F("field_label"), T("~"), F("field_id"), T("~"),
       F("field_name"), T("~"), F("field_id"), T("~"), F("field_id"),
       T("~"), F("submit_text"), T("~"), F("reset_text"), T("~"),
       F("indicator_id"), T("~"), F("loading_text"), T("~"), LB, T("~"),
       RB, T("~"), LB, T("~"), RB, T("~"), LB, T("~"), RB, T("~"), LB,
       T("~"), RB, T("~"), LB, T("~"), RB, T("~"), LB, T("~"), RB, T("~"),
       LB, T("~"), RB, T("~") >>

FormGoHandler ==
    << T("package handlers // form"), LB, T("~"), F("FieldName"), T("~"),
       F("field_name"), T("~"), RB, T("~"), LB, T("~"), RB, T("~"),
       F("HandlerName"), T("~"), F("api_endpoint"), T("~"),
       F("HandlerName"), T("~"), LB, T("~"), LB, T("~"), RB, T("~"), LB,
       T("~"), F("FieldName"), T("~"), F("field_name"), T("~"), RB, T("~"),
       LB, T("~"), RB, T("~"), LB, T("~"), F("error_message"), T("~"), RB,
       T("~"), F("success_message"), T("~"), RB, T("~"), LB, T("~"), LB,
       RB, T("~"), F("FieldName"), T("~"), LB, T("~"), LB, T("~"),
       F("field_name"), T("~"), F("required_message"), T("~"), RB, T("~"),
       RB, T("~"), RB, T("~") >>

FormParams ==
    "form_id" :> << "data-form" >> @@
    "api_endpoint" :> << "/api/", "form/submit" >> @@
    "field_id" :> << "title" >> @@
    "field_name" :> << "title" >> @@
    "FieldName" :> << "Title" >> @@
    "field_label" :> << "ko:field_label" >> @@
    "submit_text" :> << "ko:submit_text" >> @@
    "reset_text" :> << "ko:reset_text" >> @@
    "loading_text" :> << "ko:loading_text" >> @@
    "indicator_id" :> << "form-loading" >> @@
    "error_message" :> << "ko:error_message" >> @@
    "success_message" :> << "ko:success_message" >> @@
    "required_message" :> << "ko:required_message" >>

IME_SCRIPT ==
    << T("<script>// Korean IME"), LoneL, T("~"), F("input_id"), T("~"),
       F("~"), T("~"), F("~"), T("~"), LoneL, T("~"), F("~"), T("~"),
       LoneR, T("~"), LoneR, T("~") >>

TEST_PAGE_TEMPLATE ==
    << T("<!DOCTYPE html>"), F("component_title"), T("~"), F("css_styles"),
       T("~"), F("component_title"), T("~"), F("timestamp"), T("~"),
       F("component_html"), T("~"), F("mock_server_script"), T("~"), LB,
       T("~"), F("result_selector"), T("~"), LB, T("~"), RB, T("~"), RB,
       T("~"), LB, T("~"), RB, T("~"), LB, T("~"), RB, T("~"), LB, T("~"),
       F("timestamp"), T("~"), F("method"), T("~"), F("url"), T("~"),
       F("response"), T("~"), F("logEntry"), T("~"), RB, T("~"), LB,
       T("~"), RB, T("~"), LB, T("~"), RB, T("~"), LB, T("~"), RB, T("~") >>

\* the component types the module docstring lists
DocumentedTypes ==
    { "search", "infinite-scroll", "modal", "form", "pagination", "tabs",
      "inline-edit", "delete-confirm", "toggle", "dropdown", "sort-filter",
      "autocomplete", "drag-drop", "realtime" }

COMPONENTS ==
    "search" :> [html |-> SearchHtml, go_handler |-> SearchGoHandler,
                 params |-> SearchParams] @@
    "infinite-scroll" :> [html |-> InfiniteScrollHtml,
                          go_handler |-> InfiniteScrollGoHandler,
                          params |-> InfiniteScrollParams] @@
    "modal" :> [html |-> ModalHtml, go_handler |-> ModalGoHandler,
                params |-> ModalParams] @@
    "form" :> [html |-> FormHtml, go_handler |-> FormGoHandler,
               params |-> FormParams]

\* values of --name: pieces are words and "-"
ComponentNames ==
    { << "topic", "-", "search" >>, << "modal" >>, << "postTitle" >> }

\* values of --output: <<>> is None (the option not given)
OutputDirs == { <<>>, << "web", "/", "templates" >> }

\* str.capitalize on the words of ComponentNames
Capitalize(w) ==
    CASE w = "topic" -> "Topic"
      [] w = "search" -> "Search"
      [] w = "modal" -> "Modal"
      [] w = "postTitle" -> "Posttitle"
      [] OTHER -> w

\* ''.join(word.capitalize() for word in name.split('-'))
HandlerName(nm) ==
    LET words == SelectSeq(nm, LAMBDA w : w # "-")
    IN  [i \in 1..Len(words) |-> Capitalize(words[i])]

RECURSIVE ReplaceWith(_, _, _)
\* s.replace(old, new) where new is several pieces
ReplaceWith(s, old, new) ==
    IF s = <<>> THEN <<>>
    ELSE (IF Head(s) = old THEN new ELSE << Head(s) >>)
         \o ReplaceWith(Tail(s), old, new)

\* IME_SCRIPT.format(input_id=...) when korean and the component has an
\* input_id, the empty string otherwise
ImeScript(base, k) ==
    IF k /\ "input_id" \in DOMAIN base
    THEN LET r == Format(IME_SCRIPT, "input_id" :> base["input_id"])
         IN  [err |-> r.err, out |-> Flatten(r.out)]
    ELSE [err |-> NoError, out |-> <<>>]

\* the params dict after the updates of generate_component
ParamsOf(base, nm, ime) ==
    LET named == IF "api_endpoint" \in DOMAIN base
                 THEN ("api_endpoint" :> ReplaceWith(base["api_endpoint"], "/api/",
                                            << "/api/" >> \o nm \o << "/" >>))
                      @@ base
                 ELSE base
    IN  ("timestamp" :> << "timestamp" >>) @@ ("ime_script" :> ime)
        @@ ("HandlerName" :> HandlerName(nm)) @@ named

\* the formatting part of generate_component: the first exception raised, or
\* html_content and go_content (<<>> is None)
FormatComponent(ct, nm, k, go) ==
    LET component == COMPONENTS[ct]
        ime == ImeScript(component.params, k)
        params == ParamsOf(component.params, nm, ime.out)
        h == Format(component.html, params)
        g == IF go /\ "go_handler" \in DOMAIN component
             THEN Format(component.go_handler, params)
             ELSE [err |-> NoError, out |-> <<>>]
    IN  IF ime.err # NoError THEN [err |-> ime.err, html |-> <<>>, go |-> <<>>]
        ELSE IF h.err # NoError THEN [err |-> h.err, html |-> <<>>, go |-> <<>>]
        ELSE IF g.err # NoError THEN [err |-> g.err, html |-> <<>>, go |-> <<>>]
        ELSE [err |-> NoError, html |-> h.out, go |-> g.out]

HtmlPath(dir, nm) == dir \o << "/" >> \o nm \o << ".html" >>

GoPath(dir, nm) == dir \o << "/" >> \o StrReplace(nm, "-", "_") \o << "_handler.go" >>

----------------------------------------------------------------------------
(* generate_component.py: generate_component and main *)

\* the variables of analyze_colors.py while another script runs
IdleColors ==
    /\ image = <<>>
    /\ num_colors = 0
    /\ pixels = <<>>
    /\ labels = <<>>
    /\ centers = <<>>
    /\ color_freq = <<>>
    /\ colors = <<>>
    /\ idx = 1
    /\ categorized = EmptyBuckets
    /\ reordered = <<>>
    /\ recategorized = EmptyBuckets
    /\ rgb = BLACK
    /\ gray = FALSE
    /\ hex = <<>>
    /\ args_output = <<>>
    /\ args_json = FALSE
    /\ css_output = [vars |-> <<>>, usage |-> <<>>]
    /\ json_output = <<>>
    /\ stages = <<>>
    /\ previous = NoCall
    /\ lum = -1

\* main: parse_args accepts --type (a key of COMPONENTS) and calls generate_component
GcParseArgs ==
    /\ pc = "gc_main"
    /\ component_type \in DOMAIN COMPONENTS
    /\ stages' = << "main" >>
    /\ pc' = "gc_call"
    /\ UNCHANGED <<image, num_colors, pixels, labels, centers, color_freq, colors,
                   idx, categorized, reordered, recategorized, rgb, gray, hex,
                   out_vars, failed, stdout, previous, lum, comp_vars, page_vars,
                   tmpl_vars>>

\* main: --type is not among the choices; argparse prints the usage and exits with 2
GcArgparseReject ==
    /\ pc = "gc_main"
    /\ component_type \notin DOMAIN COMPONENTS
    /\ stages' = << "main" >>
    /\ stdout' = Append(stdout, "error: argument --type: invalid choice")
    /\ exit_code' = 2
    /\ pc' = "exit"
    /\ UNCHANGED <<image, num_colors, pixels, labels, centers, color_freq, colors,
                   idx, categorized, reordered, recategorized, rgb, gray, hex,
                   args_output, args_json, css_output, json_output, files,
                   failed, previous, lum, comp_vars, page_vars, tmpl_vars>>

\* generate_component: the type is not a key of COMPONENTS
GcUnknownType ==
    /\ pc = "gc_call"
    /\ component_type \notin DOMAIN COMPONENTS
    /\ stdout' = stdout \o << "Error: Unknown component type", "Available types" >>
    /\ result' = "False"
    /\ pc' = "gc_done"
    /\ UNCHANGED <<color_vars, files, exit_code, failed, component_type, name,
                   korean, go_handler, output_dir, html_content, go_content, dirs,
                   page_vars, tmpl_vars>>

\* generate_component: one of the str.format calls raises; nothing catches it
GcFormatRaise ==
    /\ pc = "gc_call"
    /\ component_type \in DOMAIN COMPONENTS
    /\ FormatComponent(component_type, name, korean, go_handler).err # NoError
    /\ result' = FormatComponent(component_type, name, korean, go_handler).err
    /\ failed' = TRUE
    /\ pc' = "gc_done"
    /\ UNCHANGED <<color_vars, files, exit_code, stdout, component_type, name,
                   korean, go_handler, output_dir, html_content, go_content, dirs,
                   page_vars, tmpl_vars>>

\* generate_component: html_content and go_content are formatted
GcFormat ==
    /\ pc = "gc_call"
    /\ component_type \in DOMAIN COMPONENTS
    /\ LET r == FormatComponent(component_type, name, korean, go_handler)
       IN  /\ r.err = NoError
           /\ html_content' = r.html
           /\ go_content' = r.go
    /\ pc' = "gc_formatted"
    /\ UNCHANGED <<color_vars, files, exit_code, failed, stdout, component_type,
                   name, korean, go_handler, output_dir, dirs, result,
                   page_vars, tmpl_vars>>

\* generate_component, output_dir given: the directory is made, the HTML file
\* is written and, when there is Go content, the handler file
GcWriteFiles ==
    /\ pc = "gc_formatted"
    /\ output_dir # <<>>
    /\ dirs' = dirs \cup {output_dir}
    /\ files' = LET withHtml == WriteFile(files, HtmlPath(output_dir, name),
                                          [kind |-> "html", body |-> html_content])
                IN  IF go_content # <<>>
                    THEN WriteFile(withHtml, GoPath(output_dir, name),
                                   [kind |-> "go", body |-> go_content])
                    ELSE withHtml
    /\ stdout' = stdout \o (IF go_content # <<>>
                            THEN << "Generated HTML", "Generated Go handler" >>
                            ELSE << "Generated HTML" >>)
    /\ pc' = "gc_emitted"
    /\ UNCHANGED <<color_vars, exit_code, failed, component_type, name, korean,
                   go_handler, output_dir, html_content, go_content, result,
                   page_vars, tmpl_vars>>

\* generate_component, no output_dir: the contents are printed
GcPrint ==
    /\ pc = "gc_formatted"
    /\ output_dir = <<>>
    /\ stdout' = stdout \o (IF go_content # <<>>
                            THEN << "HTML Component", "Go Handler" >>
                            ELSE << "HTML Component" >>)
    /\ pc' = "gc_emitted"
    /\ UNCHANGED <<color_vars, files, exit_code, failed, comp_vars, page_vars,
                   tmpl_vars>>

\* generate_component: the integration instructions are printed, True is returned
GcReturnTrue ==
    /\ pc = "gc_emitted"
    /\ stdout' = Append(stdout, "Integration Instructions")
    /\ result' = "True"
    /\ pc' = "gc_done"
    /\ UNCHANGED <<color_vars, files, exit_code, failed, component_type, name,
                   korean, go_handler, output_dir, html_content, go_content, dirs,
                   page_vars, tmpl_vars>>

\* main: sys.exit(0 if success else 1); an exception that left
\* generate_component ends the interpreter with status 1
GcExit ==
    /\ pc = "gc_done"
    /\ stages = << "main" >>
    /\ exit_code' = (IF result = "True" THEN 0 ELSE 1)
    /\ pc' = "exit"
    /\ UNCHANGED <<image, num_colors, pixels, labels, centers, color_freq, colors,
                   idx, categorized, reordered, recategorized, rgb, gray, hex,
                   args_output, args_json, css_output, json_output, files, stages,
                   failed, stdout, previous, lum, comp_vars, page_vars, tmpl_vars>>

----------------------------------------------------------------------------
(* test_component.py: generate_test_page and main *)

\* the configured components: the title, the result selector and the two
\* script texts, which hold braces of their own
COMPONENT_CONFIGS ==
    "search" :> [title |-> << "Live Search" >>,
                 result_selector |-> << "#search-results" >>,
                 html |-> << "<form class=search-form", "{", "{", "~", "}", "}" >>,
                 mock_server |-> << "const SAMPLE_CONTENT", "{", "~", "}" >>] @@
    "infinite-scroll" :> [title |-> << "Infinite Scroll" >>,
                          result_selector |-> << "#content-list" >>,
                          html |-> << "<div id=content-list", "~" >>,
                          mock_server |-> << "let currentPage", "{", "~", "}" >>] @@
    "modal" :> [title |-> << "Modal Dialog" >>,
                result_selector |-> << "#modal-container" >>,
                html |-> << "<div class=content-previews", "~" >>,
                mock_server |-> << "document.body.addEventListener", "{", "~", "}" >>]

CSS_STYLES == << "/* Dark v2 Core Styles */", "{", "~", "}" >>

\* values of --output of test_component.py
OutputFiles == { << "test-search", ".html" >>, << "out", "/", "page", ".html" >> }

\* the keyword arguments of TEST_PAGE_TEMPLATE.format
PageParams(config) ==
    ("component_title" :> config.title) @@
    ("timestamp" :> << "timestamp" >>) @@
    ("css_styles" :> CSS_STYLES) @@
    ("component_html" :> config.html) @@
    ("result_selector" :> config.result_selector) @@
    ("mock_server_script" :> config.mock_server)

\* main: parse_args accepts --component (a key of COMPONENT_CONFIGS)
TpParseArgs ==
    /\ pc = "tp_main"
    /\ component_type \in DOMAIN COMPONENT_CONFIGS
    /\ stages' = << "main" >>
    /\ pc' = "tp_call"
    /\ UNCHANGED <<image, num_colors, pixels, labels, centers, color_freq, colors,
                   idx, categorized, reordered, recategorized, rgb, gray, hex,
                   out_vars, failed, stdout, previous, lum, comp_vars, page_vars,
                   tmpl_vars>>

\* main: --component is not among the choices; argparse exits with 2
TpArgparseReject ==
    /\ pc = "tp_main"
    /\ component_type \notin DOMAIN COMPONENT_CONFIGS
    /\ stages' = << "main" >>
    /\ stdout' = Append(stdout, "error: argument --component: invalid choice")
    /\ exit_code' = 2
    /\ pc' = "exit"
    /\ UNCHANGED <<image, num_colors, pixels, labels, centers, color_freq, colors,
                   idx, categorized, reordered, recategorized, rgb, gray, hex,
                   args_output, args_json, css_output, json_output, files,
                   failed, previous, lum, comp_vars, page_vars, tmpl_vars>>

\* generate_test_page, the whole call: an unknown type returns False; else
\* the template is formatted (an exception leaves the function before the
\* file is opened), the page is written and True is returned
GenerateTestPage ==
    /\ pc = "tp_call"
    /\ IF component_type \notin DOMAIN COMPONENT_CONFIGS
       THEN /\ stdout' = stdout \o << "Error: Unknown component type",
                                      "Available types" >>
            /\ result' = "False"
            /\ UNCHANGED <<html, files, failed>>
       ELSE LET r == Format(TEST_PAGE_TEMPLATE,
                            PageParams(COMPONENT_CONFIGS[component_type]))
            IN  IF r.err # NoError
                THEN /\ result' = r.err
                     /\ failed' = TRUE
                     /\ UNCHANGED <<html, files, stdout>>
                ELSE /\ html' = r.out
                     /\ files' = WriteFile(files, output_file,
                                           [kind |-> "html", body |-> r.out])
                     /\ stdout' = Append(stdout, "Generated test page")
                     /\ result' = "True"
                     /\ UNCHANGED failed
    /\ pc' = "tp_done"
    /\ UNCHANGED <<color_vars, exit_code, component_type, name, korean,
                   go_handler, output_dir, html_content, go_content, dirs,
                   output_file, tmpl_vars>>

\* main: sys.exit(0 if success else 1); an uncaught exception exits with 1
TpExit ==
    /\ pc = "tp_done"
    /\ stages = << "main" >>
    /\ exit_code' = (IF result = "True" THEN 0 ELSE 1)
    /\ pc' = "exit"
    /\ UNCHANGED <<image, num_colors, pixels, labels, centers, color_freq, colors,
                   idx, categorized, reordered, recategorized, rgb, gray, hex,
                   args_output, args_json, css_output, json_output, files, stages,
                   failed, stdout, previous, lum, comp_vars, page_vars, tmpl_vars>>

----------------------------------------------------------------------------
(* the two generators of htmx-component-builder, called directly or run *)
(* from the command line, on the documented component types             *)

InitComponent ==
    /\ IdleColors
    /\ InitTmpl
    /\ files = <<>>
    /\ exit_code = -1
    /\ failed = FALSE
    /\ stdout = <<>>
    /\ html_content = <<>>
    /\ go_content = <<>>
    /\ dirs = {}
    /\ result = "none"
    /\ html = <<>>
    /\ component_type \in DocumentedTypes
    /\ \/ /\ pc \in {"gc_main", "gc_call"}
          /\ name \in ComponentNames
          /\ korean \in BOOLEAN
          /\ go_handler \in BOOLEAN
          /\ output_dir \in OutputDirs
          /\ output_file = <<>>
       \/ /\ pc \in {"tp_main", "tp_call"}
          /\ output_file \in OutputFiles
          /\ name = <<>>
          /\ korean = FALSE
          /\ go_handler = FALSE
          /\ output_dir = <<>>

NextComponent ==
    \/ GcParseArgs
    \/ GcArgparseReject
    \/ GcUnknownType
    \/ GcFormatRaise
    \/ GcFormat
    \/ GcWriteFiles
    \/ GcPrint
    \/ GcReturnTrue
    \/ GcExit
    \/ TpParseArgs
    \/ TpArgparseReject
    \/ GenerateTestPage
    \/ TpExit

SpecComponent == InitComponent /\ [][NextComponent]_vars

----------------------------------------------------------------------------
(* analyze_templates.py: analyze_template_file *)
(*                                                                         *)
(* A line is the sequence of its atoms (pieces of text such as "<a", " ",  *)
(* "href=", "dq" for a double quote, "sq" for a single quote); a pattern   *)
(* is a sequence of atoms and is in a line when it occurs there as a       *)
(* contiguous run.  "ko:delete" and "ko:tab" are the Korean words of the   *)
(* two regular expressions.                                                *)

MaxLines == 2
MaxFiles == 2

\* print_opportunities lists this many opportunities of a type
ListCap == 3
\* with --priority: this many of high and of medium priority
HighCap == 5
MediumCap == 3

\* str.lower on an atom
LowerAtom(a) ==
    CASE a = "<A" -> "<a"
      [] a = "HREF=" -> "href="
      [] a = "/About" -> "/about"
      [] a = "Next" -> "next"
      [] OTHER -> a

Lower(line) == [i \in DOMAIN line |-> LowerAtom(line[i])]

\* pattern in line
Has(line, pattern) ==
    \E i \in 0..(Len(line) - Len(pattern)) :
       \A j \in 1..Len(pattern) : line[i + j] = pattern[j]

Digits == { "1", "2" }

\* re.search(r'(next|prev|previous|page\s*\d+)', line_lower)
MatchPagination(ll) ==
    \/ Has(ll, << "next" >>)
    \/ Has(ll, << "prev" >>)
    \/ \E i \in DOMAIN ll : \E j \in DOMAIN ll :
          /\ ll[i] = "page"
          /\ j > i
          /\ ll[j] \in Digits
          /\ \A k \in (i + 1)..(j - 1) : ll[k] = " "

\* re.search(r'{{range\s+\.\w+}}', line) or re.search(r'{%\s*for\s+', line),
\* on the line as written
MatchList(line) ==
    \/ \E i \in DOMAIN line : \E j \in DOMAIN line :
          /\ line[i] = "{{range"
          /\ j > i + 1
          /\ \A k \in (i + 1)..(j - 1) : line[k] = " "
          /\ j + 2 <= Len(line)
          /\ line[j] = "."
          /\ line[j + 1] \in { "Items", "Posts" }
          /\ line[j + 2] = "}}"
    \/ \E i \in DOMAIN line : \E j \in DOMAIN line :
          /\ line[i] = "{%"
          /\ j > i
          /\ \A k \in (i + 1)..(j - 1) : line[k] = " "
          /\ j + 1 <= Len(line)
          /\ line[j] = "for"
          /\ line[j + 1] = " "

\* re.search(r'delete|remove|...', line_lower)
MatchDelete(ll) ==
    Has(ll, << "delete" >>) \/ Has(ll, << "remove" >>) \/ Has(ll, << "ko:delete" >>)

\* re.search(r'modal|popup|dialog', line_lower)
MatchModal(ll) ==
    Has(ll, << "modal" >>) \/ Has(ll, << "popup" >>) \/ Has(ll, << "dialog" >>)

\* re.search(r'tab|...', line_lower)
MatchTab(ll) == Has(ll, << "tab" >>) \/ Has(ll, << "ko:tab" >>)

HTMXOpportunity(file, n, ty, line, prio) ==
    [file_path |-> file, line_num |-> n, opp_type |-> ty, element |-> line,
     priority |-> prio]

IsNavLink_nohttps(ll) ==
    /\ Has(ll, << "<a", " ", "href=" >>)
    /\ ~Has(ll, << "hx-" >>)
    /\ ~Has(ll, << "http://" >>)
    /\ ~Has(ll, << "href=", "dq", "#" >>)

\* the three nested tests of the navigation-link check
IsNavLink(ll) ==
    /\ Has(ll, << "<a", " ", "href=" >>)
    /\ ~Has(ll, << "hx-" >>)
    /\ ~Has(ll, << "http://" >>) /\ ~Has(ll, << "https://" >>)
    /\ ~Has(ll, << "href=", "dq", "#" >>)

\* the body of the for loop: the opportunities one line adds, in order
\* (element is the line; its strip() and its cut to 80 characters are not
\* modelled)
LineOpps(file, n, line) ==
    LET ll == Lower(line)
        One(cond, ty, prio) ==
            IF cond THEN << HTMXOpportunity(file, n, ty, line, prio) >> ELSE <<>>
    IN  (IF Has(ll, << "<form" >>)
         THEN IF Has(ll, << "action=" >>) /\ Has(ll, << "method=", "dq", "get", "dq" >>)
              THEN One(TRUE, "Search Form", "high")
              ELSE One(Has(ll, << "action=" >>)
                         /\ Has(ll, << "method=", "dq", "post", "dq" >>),
                       "Form Submit", "medium")
         ELSE <<>>)
        \o One(IsNavLink(ll), "Nav Link", "low")
        \o One(MatchPagination(ll)
                 /\ (Has(ll, << "<a", " ", "href=" >>) \/ Has(ll, << "<button" >>)),
               "Pagination", "medium")
        \o One(MatchList(line), "Content List", "high")
        \o One(MatchDelete(ll) /\ (Has(ll, << "<button" >>) \/ Has(ll, << "<a" >>)),
               "Delete Action", "medium")
        \o One(MatchModal(ll), "Modal Trigger", "medium")
        \o One(MatchTab(ll) /\ (Has(ll, << "<button" >>) \/ Has(ll, << "<a" >>)),
               "Tab Navigation", "low")

----------------------------------------------------------------------------
(* analyze_templates.py: print_opportunities *)

\* s[:n]
Take(s, n) == SubSeq(s, 1, IF Len(s) < n THEN Len(s) ELSE n)

\* every opportunity of the dict, file after file in insertion order
AllOpps(all) == Flatten([i \in DOMAIN all |-> all[i].opps])

RECURSIVE TypesFrom(_, _)
\* the keys of by_type, in the order of first appearance
TypesFrom(seen, opps) ==
    IF opps = <<>> THEN seen
    ELSE TypesFrom(IF \E i \in DOMAIN seen : seen[i] = Head(opps).opp_type
                   THEN seen ELSE Append(seen, Head(opps).opp_type),
                   Tail(opps))

OfType(opps, ty) == SelectSeq(opps, LAMBDA o : o.opp_type = ty)

OfPriority(opps, prio) == SelectSeq(opps, LAMBDA o : o.priority = prio)

RECURSIVE InsertByCount(_, _, _)
\* place type ty after the types that have at least as many opportunities
InsertByCount(sorted, ty, opps) ==
    IF sorted = <<>> THEN << ty >>
    ELSE IF Len(OfType(opps, Head(sorted))) >= Len(OfType(opps, ty))
         THEN << Head(sorted) >> \o InsertByCount(Tail(sorted), ty, opps)
         ELSE << ty >> \o sorted

RECURSIVE SortTypesFrom(_, _, _)
\* sorted(by_type.items(), key=lambda x: len(x[1]), reverse=True)
SortTypesFrom(sorted, rest, opps) ==
    IF rest = <<>> THEN sorted
    ELSE SortTypesFrom(InsertByCount(sorted, Head(rest), opps), Tail(rest), opps)

Items(opps) == [i \in DOMAIN opps |-> [kind |-> "item", opp |-> opps[i]]]

\* what is printed for one type
Section(ty, opps, show_priority) ==
    << [kind |-> "type", opp_type |-> ty, found |-> Len(opps)] >>
    \o (IF show_priority
        THEN LET high == OfPriority(opps, "high")
                 medium == OfPriority(opps, "medium")
                 low == OfPriority(opps, "low")
             IN  (IF high # <<>>
                  THEN << [kind |-> "high", found |-> Len(high)] >>
                       \o Items(Take(high, HighCap))
                  ELSE <<>>)
                 \o (IF medium # <<>>
                     THEN << [kind |-> "medium", found |-> Len(medium)] >>
                          \o Items(Take(medium, MediumCap))
                     ELSE <<>>)
                 \o (IF low # <<>>
                     THEN << [kind |-> "low", found |-> Len(low)] >>
                     ELSE <<>>)
        ELSE Items(Take(opps, ListCap))
             \o (IF Len(opps) > ListCap
                 THEN << [kind |-> "more", found |-> Len(opps) - ListCap] >>
                 ELSE <<>>))

RECURSIVE Sections(_, _, _)
Sections(types, opps, show_priority) ==
    IF types = <<>> THEN <<>>
    ELSE Section(Head(types), OfType(opps, Head(types)), show_priority)
         \o Sections(Tail(types), opps, show_priority)

\* everything print_opportunities prints
print_opportunities(all, show_priority) ==
    IF all = <<>> THEN << [kind |-> "none_found", found |-> 0] >>
    ELSE LET opps == AllOpps(all)
         IN  << [kind |-> "total", found |-> Len(opps)] >>
             \o Sections(SortTypesFrom(<<>>, TypesFrom(<<>>, opps), opps),
                         opps, show_priority)
             \o << [kind |-> "summary", high |-> Len(OfPriority(opps, "high")),
                    medium |-> Len(OfPriority(opps, "medium")),
                    low |-> Len(OfPriority(opps, "low"))] >>

----------------------------------------------------------------------------
(* analyze_templates.py: analyze_templates and main *)

\* lines a template may hold
LineSet ==
    { << "<a", " ", "href=", "dq", "/about", "dq", ">" >>,
      << "<a", " ", "href=", "dq", "/about", "dq", " ", "hx-", "boost", ">" >>,
      << "<a", " ", "href=", "dq", "http://", "x.org", "dq", ">" >>,
      << "<a", " ", "href=", "dq", "https://", "x.org", "dq", ">" >>,
      << "<a", " ", "href=", "dq", "#", "top", "dq", ">" >>,
      << "<a", " ", "href=", "sq", "#", "top", "sq", ">" >>,
      << "<A", " ", "HREF=", "dq", "/About", "dq", ">" >>,
      << "<a", " ", "href=", "dq", "/p", "dq", ">", "Next" >>,
      << "<a", " ", "href=", "dq", "/a", "dq", ">", "<a", " ", "href=", "dq", "/b", "dq", ">" >>,
      << "<a", " ", "href=", "dq", "/a", "dq", ">", "<a", " ", "href=", "dq", "https://", "x.org", "dq", ">" >>,
      << "<a", " ", "href=", "dq", "/t", "dq", ">", "tab" >>,
      << "<form", " ", "action=", "dq", "/s", "dq", " ", "method=", "dq", "get", "dq", ">" >>,
      << "<form", " ", "action=", "dq", "/s", "dq", " ", "method=", "dq", "post", "dq", ">" >>,
      << "{{range", " ", ".", "Items", "}}" >>,
      << "<button", ">", "delete" >>,
      << "<div", " ", "class=", "dq", "modal", "dq", ">" >>,
      << "page", " ", "1" >>,
      << "hello" >> }

PlainLink == << "<a", " ", "href=", "dq", "/about", "dq", ">" >>
RangeLine == << "{{range", " ", ".", "Items", "}}" >>
PostForm ==
    << "<form", " ", "action=", "dq", "/s", "dq", " ", "method=", "dq", "post", "dq", ">" >>

File(ext, readable, lines) == [ext |-> ext, readable |-> readable, lines |-> lines]

\* files a templates directory may hold: one that cannot be read, one with
\* four links, one with three list loops, a .tmpl with two forms and a
\* dialog, one without opportunities, and one that is no template
FileSet ==
    { File("html", FALSE, << PlainLink >>),
      File("html", TRUE, << PlainLink, PlainLink, PlainLink, PlainLink >>),
      File("html", TRUE, << RangeLine, RangeLine, RangeLine >>),
      File("tmpl", TRUE, << PostForm, PostForm,
                            << "<div", " ", "class=", "dq", "modal", "dq", ">" >> >>),
      File("html", TRUE, << << "hello" >> >>),
      File("txt", TRUE, << PlainLink >>) }

\* what --path may name
TemplateDirs ==
    { [kind |-> "missing", entries |-> <<>>], [kind |-> "file", entries |-> <<>>] }
    \cup { [kind |-> "dir", entries |-> e] : e \in SeqsUpTo(FileSet, MaxFiles) }
    \cup { [kind |-> "dir", entries |-> << File("html", TRUE, ls) >>] :
             ls \in SeqsUpTo(LineSet, MaxLines) }

\* the positions of the entries with extension ext, in directory order
Glob(entries, ext) ==
    SelectSeq([i \in DOMAIN entries |-> i], LAMBDA i : entries[i].ext = ext)

\* the file the loop of analyze_templates is at (a path is the position of
\* the file in the directory)
CurrentFile == template_dir.entries[html_files[file_idx]]

\* main: the path does not exist
TmNotFound ==
    /\ pc = "tm_main"
    /\ template_dir.kind = "missing"
    /\ stdout' = Append(stdout, [kind |-> "error", text |-> "Directory not found"])
    /\ exit_code' = 1
    /\ pc' = "exit"
    /\ UNCHANGED <<color_vars, files, failed, comp_vars, page_vars, template_dir,
                   html_files, file_idx, line_num, opportunities,
                   all_opportunities, args_priority, args_verbose>>

\* main: the path is not a directory
TmNotDir ==
    /\ pc = "tm_main"
    /\ template_dir.kind = "file"
    /\ stdout' = Append(stdout, [kind |-> "error", text |-> "Not a directory"])
    /\ exit_code' = 1
    /\ pc' = "exit"
    /\ UNCHANGED <<color_vars, files, failed, comp_vars, page_vars, template_dir,
                   html_files, file_idx, line_num, opportunities,
                   all_opportunities, args_priority, args_verbose>>

\* analyze_templates: the *.html files, then the *.tmpl files
ScanDir ==
    /\ pc = "tm_main"
    /\ template_dir.kind = "dir"
    /\ html_files' = Glob(template_dir.entries, "html")
                       \o Glob(template_dir.entries, "tmpl")
    /\ stdout' = Append(stdout, [kind |-> "scanning", found |-> Len(html_files')])
    /\ file_idx' = 1
    /\ pc' = "tm_scan"
    /\ UNCHANGED <<color_vars, files, exit_code, failed, comp_vars, page_vars,
                   template_dir, line_num, opportunities, all_opportunities,
                   args_priority, args_verbose>>

AnalyzeUnreadable_abort ==
    /\ pc = "tm_scan"
    /\ file_idx <= Len(html_files)
    /\ ~CurrentFile.readable
    /\ failed' = TRUE
    /\ exit_code' = 1
    /\ pc' = "exit"
    /\ UNCHANGED <<color_vars, files, stdout, comp_vars, page_vars, template_dir,
                   html_files, file_idx, line_num, opportunities,
                   all_opportunities, args_priority, args_verbose>>

\* analyze_template_file on a file that cannot be opened or decoded: the
\* warning is printed and the empty list returned; analyze_templates stores
\* nothing for it and goes to the next file
AnalyzeUnreadable ==
    /\ pc = "tm_scan"
    /\ file_idx <= Len(html_files)
    /\ ~CurrentFile.readable
    /\ stdout' = Append(stdout, [kind |-> "warning", file |-> html_files[file_idx]])
    /\ opportunities' = <<>>
    /\ file_idx' = file_idx + 1
    /\ UNCHANGED <<pc, color_vars, files, exit_code, failed, comp_vars, page_vars,
                   template_dir, html_files, line_num, all_opportunities,
                   args_priority, args_verbose>>

\* analyze_template_file: the lines are read
ReadLines ==
    /\ pc = "tm_scan"
    /\ file_idx <= Len(html_files)
    /\ CurrentFile.readable
    /\ opportunities' = <<>>
    /\ line_num' = 1
    /\ pc' = "tm_lines"
    /\ UNCHANGED <<color_vars, files, exit_code, failed, stdout, comp_vars,
                   page_vars, template_dir, html_files, file_idx,
                   all_opportunities, args_priority, args_verbose>>

\* analyze_template_file: one iteration of the loop over the lines
AnalyzeLine ==
    /\ pc = "tm_lines"
    /\ line_num <= Len(CurrentFile.lines)
    /\ opportunities' = opportunities
          \o LineOpps(html_files[file_idx], line_num, CurrentFile.lines[line_num])
    /\ line_num' = line_num + 1
    /\ UNCHANGED <<pc, color_vars, files, exit_code, failed, stdout, comp_vars,
                   page_vars, template_dir, html_files, file_idx,
                   all_opportunities, args_priority, args_verbose>>

\* analyze_template_file returns; analyze_templates stores a non-empty list
FileReturn ==
    /\ pc = "tm_lines"
    /\ line_num > Len(CurrentFile.lines)
    /\ all_opportunities' =
          IF opportunities # <<>>
          THEN Append(all_opportunities,
                      [file |-> html_files[file_idx], opps |-> opportunities])
          ELSE all_opportunities
    /\ file_idx' = file_idx + 1
    /\ pc' = "tm_scan"
    /\ UNCHANGED <<color_vars, files, exit_code, failed, stdout, comp_vars,
                   page_vars, template_dir, html_files, line_num, opportunities,
                   args_priority, args_verbose>>

\* main: print_opportunities(opportunities, show_priority=args.priority)
PrintOpportunities ==
    /\ pc = "tm_scan"
    /\ file_idx > Len(html_files)
    /\ stdout' = stdout \o print_opportunities(all_opportunities, args_priority)
    /\ pc' = "tm_printed"
    /\ UNCHANGED <<color_vars, files, exit_code, failed, comp_vars, page_vars,
                   tmpl_vars>>

\* main: return 0
TmReturnZero ==
    /\ pc = "tm_printed"
    /\ exit_code' = 0
    /\ pc' = "exit"
    /\ UNCHANGED <<color_vars, files, failed, stdout, comp_vars, page_vars,
                   tmpl_vars>>

InitTemplates ==
    /\ IdleColors
    /\ InitComp
    /\ InitPage
    /\ pc = "tm_main"
    /\ files = <<>>
    /\ exit_code = -1
    /\ failed = FALSE
    /\ stdout = <<>>
    /\ template_dir \in TemplateDirs
    /\ args_priority \in BOOLEAN
    /\ args_verbose \in BOOLEAN
    /\ html_files = <<>>
    /\ file_idx = 1
    /\ line_num = 1
    /\ opportunities = <<>>
    /\ all_opportunities = <<>>

NextTemplates ==
    \/ TmNotFound
    \/ TmNotDir
    \/ ScanDir
    \/ AnalyzeUnreadable
    \/ ReadLines
    \/ AnalyzeLine
    \/ FileReturn
    \/ PrintOpportunities
    \/ TmReturnZero

SpecTemplates == InitTemplates /\ [][NextTemplates]_vars

----------------------------------------------------------------------------
(* Reference notions the properties are stated with *)

RefSpread(c) == Max3(c) - Min3(c)

\* all pairwise channel differences at most 9
RefGray(c) == RefSpread(c) <= 9

\* (max - min) / max > 0.3
RefSatOver(c) == Max3(c) > 0 /\ 10 * RefSpread(c) > 3 * Max3(c)

RefSatNonGray(c) == ~RefGray(c) /\ RefSatOver(c)

\* number of saturated non-grayscale colours before position i
RefRank(cs, i) == Cardinality({ j \in 1..(i - 1) : RefSatNonGray(cs[j]) })

RefBucket(cs, i) ==
    IF RefGray(cs[i]) THEN "neutral"
    ELSE IF RefSatOver(cs[i])
         THEN IF RefRank(cs, i) < 2 THEN "primary" ELSE "accent"
         ELSE "neutral"

RECURSIVE RefPick(_, _, _)
\* the colours at positions 1..n of cs whose reference bucket is b, in order
RefPick(cs, n, b) ==
    IF n = 0 THEN <<>>
    ELSE IF RefBucket(cs, n) = b
         THEN Append(RefPick(cs, n - 1, b), cs[n])
         ELSE RefPick(cs, n - 1, b)

Range(s) == { s[i] : i \in DOMAIN s }

InCategorize == pc \in {"categorize", "categorized", "reordered"}

----------------------------------------------------------------------------
(* Properties of categorize_colors (SpecCategorize) *)

\* C1: after every prefix of the traversal, and in the result, each colour
\* consumed so far is in exactly one bucket: the bucket lengths sum to the
\* number of colours consumed and, for every colour value, its occurrences
\* in the three buckets add up to its occurrences in the consumed prefix.
C1_ExactlyOneBucket ==
    InCategorize =>
      LET seen == SubSeq(colors, 1, idx - 1)
      IN  /\ Len(categorized.primary) + Len(categorized.neutral)
               + Len(categorized.accent) = Len(seen)
          /\ \A c \in Range(colors) :
                Count(c, categorized.primary) + Count(c, categorized.neutral)
                  + Count(c, categorized.accent) = Count(c, seen)
          /\ (pc # "categorize" => Len(seen) = Len(colors))

C1_Witness ==
    /\ pc = "categorized"
    /\ Len(colors) >= 4
    /\ categorized.primary # <<>>
    /\ categorized.neutral # <<>>
    /\ categorized.accent # <<>>

\* C2: primary never holds more than 2 colours, and a loop iteration that
\* meets a non-grayscale colour of saturation > 0.3 while primary holds 2
\* colours appends it to accent and leaves primary and neutral alone.
C2_PrimaryCapOverflow ==
    /\ [](Len(categorized.primary) <= 2)
    /\ [][ ( /\ pc = "categorize"
             /\ idx <= Len(colors)
             /\ RefSatNonGray(colors[idx])
             /\ Len(categorized.primary) = 2 )
           => ( /\ categorized'.accent = Append(categorized.accent, colors[idx])
                /\ categorized'.primary = categorized.primary
                /\ categorized'.neutral = categorized.neutral ) ]_vars

C2_Witness ==
    /\ pc = "categorized"
    /\ Len(categorized.primary) = 2
    /\ Len(categorized.accent) >= 2

\* C3: the buckets equal the reference rule at every point of the traversal:
\* grayscale -> neutral; otherwise saturation > 0.3 -> primary while fewer
\* than 2 saturated colours came before, accent after; saturation <= 0.3 ->
\* neutral.  Each bucket lists its colours in traversal order.
C3_ReferenceRule ==
    InCategorize =>
      /\ categorized.primary = RefPick(colors, idx - 1, "primary")
      /\ categorized.neutral = RefPick(colors, idx - 1, "neutral")
      /\ categorized.accent = RefPick(colors, idx - 1, "accent")

C3_Witness ==
    /\ pc = "categorized"
    /\ Count(<<100, 80, 70>>, categorized.neutral) >= 1
    /\ Count(<<9, 1, 1>>, categorized.neutral) >= 1
    /\ Count(<<100, 80, 69>>, categorized.accent) >= 1
    /\ Len(categorized.primary) = 2

\* C4 as claimed: for two orderings of the same colours every bucket holds
\* the same colours (as often) under both.
C4_OrderIrrelevant ==
    pc = "reordered" =>
      \A b \in {"primary", "neutral", "accent"} :
        \A c \in Range(colors) :
          Count(c, categorized[b]) = Count(c, recategorized[b])

\* C4 amended: for two orderings of the same colours the neutral bucket
\* holds the same colours under both, and primary and accent together hold
\* the same colours under both; only the primary/accent split may differ.
C4_OrderMovesOnlyPrimaryAccent ==
    pc = "reordered" =>
      \A c \in Range(colors) :
        /\ Count(c, categorized.neutral) = Count(c, recategorized.neutral)
        /\ Count(c, categorized.primary \o categorized.accent)
             = Count(c, recategorized.primary \o recategorized.accent)

C4_Witness ==
    /\ pc = "reordered"
    /\ reordered # colors
    /\ categorized.neutral # <<>>
    /\ categorized.accent # <<>>
    /\ Range(categorized.accent) # Range(recategorized.accent)

\* C5 as claimed: when every colour has (max - min) / max > 0.3, primary is
\* the first 2 colours, accent the rest and neutral is empty.
C5_AllOverThreshold ==
    (pc = "categorized" /\ \A i \in DOMAIN colors : RefSatOver(colors[i])) =>
      /\ categorized.primary = SubSeq(colors, 1, IF Len(colors) < 2 THEN Len(colors) ELSE 2)
      /\ categorized.accent = SubSeq(colors, 3, Len(colors))
      /\ categorized.neutral = <<>>

\* C5 amended: when every colour is non-grayscale and has
\* (max - min) / max > 0.3, primary is the first 2 colours, accent the rest
\* and neutral is empty.
C5_AllSaturatedNonGray ==
    (pc = "categorized" /\ \A i \in DOMAIN colors : RefSatNonGray(colors[i])) =>
      /\ categorized.primary = SubSeq(colors, 1, IF Len(colors) < 2 THEN Len(colors) ELSE 2)
      /\ categorized.accent = SubSeq(colors, 3, Len(colors))
      /\ categorized.neutral = <<>>

C5_Witness ==
    /\ pc = "categorized"
    /\ Len(colors) = 5
    /\ \A i \in DOMAIN colors : RefSatNonGray(colors[i])
    /\ Len(categorized.primary) = 2
    /\ Len(categorized.accent) = 3

----------------------------------------------------------------------------
(* Properties of is_grayscale (SpecColor) *)

\* C6: is_grayscale is true exactly when |r-g|, |g-b| and |r-b| are all at
\* most 9, and false when one of them is 10 or more.
C6_GrayscaleWithinNine ==
    pc = "color_done" =>
      LET rg == Abs(rgb[1] - rgb[2])
          gb == Abs(rgb[2] - rgb[3])
          rb == Abs(rgb[1] - rgb[3])
      IN  /\ gray = (rg <= 9 /\ gb <= 9 /\ rb <= 9)
          /\ ((rg >= 10 \/ gb >= 10 \/ rb >= 10) => gray = FALSE)

C6_Witness ==
    /\ pc = "color_done"
    /\ gray = TRUE
    /\ Abs(rgb[1] - rgb[2]) = 9
    /\ Abs(rgb[1] - rgb[3]) = 9

----------------------------------------------------------------------------
(* Properties of extract_palette (Spec) *)

\* the positions at which the locals of extract_palette exist
AfterSample ==
    \/ pc \in {"sampled", "fitted", "extracted"}
    \/ pc = "raised" /\ "cluster" \in Range(stages)

AfterReturn == pc = "extracted"

RECURSIVE IsSubseq(_, _)
\* s is t with some elements left out
IsSubseq(s, t) ==
    IF s = <<>> THEN TRUE
    ELSE IF t = <<>> THEN FALSE
    ELSE IF Head(s) = Head(t) THEN IsSubseq(Tail(s), Tail(t))
    ELSE IsSubseq(s, Tail(t))

\* C7 as claimed: each returned colour is its cluster's centroid rounded to
\* the nearest integer per channel (no channel is off by more than 1/2).
C7_RoundedToNearest ==
    AfterReturn =>
      \A j \in DOMAIN colors : \A ch \in 1..3 :
        LET ctr == centers[color_freq[j].cluster]
        IN  2 * Abs(colors[j][ch] * ctr.n - ctr.sum[ch]) <= ctr.n

\* C8: extract_palette returns num_colors colours, one per cluster, in
\* non-increasing order of the clusters' member counts, clusters of equal
\* count in cluster-index order.
C8_SortedByCountStable ==
    AfterReturn =>
      /\ Len(colors) = num_colors
      /\ Len(color_freq) = num_colors
      /\ { color_freq[j].cluster : j \in DOMAIN color_freq } = 0..(num_colors - 1)
      /\ \A j \in DOMAIN colors :
            colors[j] = ToIntTuple(centers[color_freq[j].cluster])
      /\ \A j \in DOMAIN color_freq : \A k \in DOMAIN color_freq :
            j < k =>
              LET nj == Cardinality({ i \in DOMAIN labels : labels[i] = color_freq[j].cluster })
                  nk == Cardinality({ i \in DOMAIN labels : labels[i] = color_freq[k].cluster })
              IN  /\ nj >= nk
                  /\ (nj = nk => color_freq[j].cluster < color_freq[k].cluster)

C8_Witness ==
    /\ pc = "extracted"
    /\ num_colors = 2
    /\ color_freq[1].cluster = 1
    /\ color_freq[1].count = 2
    /\ color_freq[2].count = 1

\* C9: the pixels handed to the clustering step hold no (255,255,255) and no
\* (0,0,0), hold every other pixel of the image as often as the image does,
\* and are in the image's order.
C9_FilterKeepsTheRest ==
    AfterSample =>
      /\ \A i \in DOMAIN pixels : pixels[i] # WHITE /\ pixels[i] # BLACK
      /\ \A c \in Range(image) \ {WHITE, BLACK} : Count(c, pixels) = Count(c, image)
      /\ IsSubseq(pixels, image)

C9_Witness ==
    /\ pc = "sampled"
    /\ Len(image) = 3
    /\ image[1] = WHITE
    /\ image[2] = <<0, 0, 1>>
    /\ image[3] = BLACK
    /\ pixels = << <<0, 0, 1>> >>

\* C10 as claimed: no colour returned by extract_palette and passed to
\* categorize_colors is (0,0,0).
C10_NoBlackReturned ==
    AfterReturn => \A j \in DOMAIN colors : colors[j] # BLACK

\* C10 amended: no pixel handed to the clustering step is (0,0,0), and a
\* returned colour is (0,0,0) only for a cluster whose centroid is not
\* (0,0,0) but has every channel below 1.
C10_BlackOnlyByTruncation ==
    /\ AfterSample => \A i \in DOMAIN pixels : pixels[i] # BLACK
    /\ AfterReturn =>
         \A j \in DOMAIN colors :
           colors[j] = BLACK =>
             LET ctr == centers[color_freq[j].cluster]
             IN  /\ \A ch \in 1..3 : ctr.sum[ch] < ctr.n
                 /\ \E ch \in 1..3 : ctr.sum[ch] > 0

C10_Witness ==
    /\ pc = "extracted"
    /\ \E i \in DOMAIN image : image[i] = BLACK
    /\ \E j \in DOMAIN colors : colors[j] = BLACK

----------------------------------------------------------------------------
(* Reference notions for the emitter's properties *)

RefHexValue(ch) ==
    CASE ch = "0" -> 0  [] ch = "1" -> 1  [] ch = "2" -> 2  [] ch = "3" -> 3
      [] ch = "4" -> 4  [] ch = "5" -> 5  [] ch = "6" -> 6  [] ch = "7" -> 7
      [] ch = "8" -> 8  [] ch = "9" -> 9  [] ch = "a" -> 10 [] ch = "b" -> 11
      [] ch = "c" -> 12 [] ch = "d" -> 13 [] ch = "e" -> 14 [] ch = "f" -> 15
      [] OTHER -> -1000

\* the colour a "#rrggbb" string stands for
RefDecode(h) ==
    << 16 * RefHexValue(h[2]) + RefHexValue(h[3]),
       16 * RefHexValue(h[4]) + RefHexValue(h[5]),
       16 * RefHexValue(h[6]) + RefHexValue(h[7]) >>

NeutralKinds == {"light", "dark", "neutral"}

\* the declarations of the neutral bucket, in block order
NeutralDecls(ds) == SelectSeq(ds, LAMBDA d : d.name.kind \in NeutralKinds)

UsageLines(u, rule, prop) == SelectSeq(u, LAMBDA l : l.rule = rule /\ l.prop = prop)

----------------------------------------------------------------------------
(* Properties of generate_css_variables and generate_usage_example (SpecEmit) *)

\* C11: the :root block holds one declaration per neutral colour, and these
\* declarations are in non-decreasing luminance order, whatever the order
\* of the neutral bucket.
C11_NeutralsAscending ==
    pc = "generated" =>
      LET nd == NeutralDecls(css_output.vars)
      IN  /\ Len(nd) = Len(categorized.neutral)
          /\ \A c \in Range(categorized.neutral) :
                Count(c, [i \in 1..Len(nd) |-> RefDecode(nd[i].value)])
                  = Count(c, categorized.neutral)
          /\ \A i \in 1..(Len(nd) - 1) :
                get_luminance(RefDecode(nd[i].value))
                  <= get_luminance(RefDecode(nd[i + 1].value))

C11_Witness ==
    /\ pc = "generated"
    /\ categorized.neutral = << <<240, 240, 240>>, <<40, 40, 40>>, <<160, 160, 160>> >>

\* C12: the i-th neutral declaration (1-based, in luminance order) of a
\* colour of luminance L is named light-i if L > 0.7, dark-i if L < 0.3 and
\* neutral-i otherwise.
C12_NeutralNames ==
    pc = "generated" =>
      LET nd == NeutralDecls(css_output.vars)
      IN  \A i \in 1..Len(nd) :
            LET L == get_luminance(RefDecode(nd[i].value))
            IN  /\ nd[i].name.n = i
                /\ (L > 700000000 => nd[i].name.kind = "light")
                /\ (L < 300000000 => nd[i].name.kind = "dark")
                /\ (L >= 300000000 /\ L <= 700000000 => nd[i].name.kind = "neutral")

C12_Witness ==
    /\ pc = "generated"
    /\ \E i \in 1..(Len(css_output.vars) - 2) :
          /\ css_output.vars[i].name = [kind |-> "dark", n |-> 1]
          /\ css_output.vars[i + 1].name = [kind |-> "neutral", n |-> 2]
          /\ css_output.vars[i + 2].name = [kind |-> "light", n |-> 3]

\* C13: one declaration per categorized colour, names pairwise distinct;
\* first the primary declarations primary-i with the i-th primary colour,
\* then the neutral ones, then accent-i with the i-th accent colour.
C13_OneDeclarationPerColour ==
    pc = "generated" =>
      LET ds == css_output.vars
          np == Len(categorized.primary)
          nn == Len(categorized.neutral)
          na == Len(categorized.accent)
      IN  /\ Len(ds) = np + nn + na
          /\ \A i \in DOMAIN ds : \A j \in DOMAIN ds :
                i # j => ds[i].name # ds[j].name
          /\ \A i \in 1..np :
                /\ ds[i].name = [kind |-> "primary", n |-> i]
                /\ RefDecode(ds[i].value) = categorized.primary[i]
          /\ \A i \in 1..nn : ds[np + i].name.kind \in NeutralKinds
          /\ \A i \in 1..na :
                /\ ds[np + nn + i].name = [kind |-> "accent", n |-> i]
                /\ RefDecode(ds[np + nn + i].value) = categorized.accent[i]

C13_Witness ==
    /\ pc = "generated"
    /\ Len(categorized.primary) = 2
    /\ Len(categorized.neutral) = 1
    /\ Len(categorized.accent) = 1
    /\ categorized.primary[1] # categorized.primary[2]

\* C14: the usage example has the body background-color line (fallback: a
\* neutral of greatest luminance) and the body color line (fallback: a
\* neutral of least luminance) exactly when neutral is non-empty, the
\* "button, a" rule exactly when primary is non-empty and the ".highlight"
\* rule exactly when accent is non-empty.
C14_UsageExample ==
    pc = "generated" =>
      LET u  == css_output.usage
          bg == UsageLines(u, "body", "background-color")
          fg == UsageLines(u, "body", "color")
      IN  /\ Len(bg) = (IF categorized.neutral # <<>> THEN 1 ELSE 0)
          /\ Len(fg) = (IF categorized.neutral # <<>> THEN 1 ELSE 0)
          /\ \A i \in DOMAIN bg :
                /\ RefDecode(bg[i].fallback) \in Range(categorized.neutral)
                /\ \A c \in Range(categorized.neutral) :
                      get_luminance(c) <= get_luminance(RefDecode(bg[i].fallback))
          /\ \A i \in DOMAIN fg :
                /\ RefDecode(fg[i].fallback) \in Range(categorized.neutral)
                /\ \A c \in Range(categorized.neutral) :
                      get_luminance(c) >= get_luminance(RefDecode(fg[i].fallback))
          /\ (categorized.primary # <<>>)
               <=> (\E i \in DOMAIN u : u[i].rule = "button, a")
          /\ (categorized.accent # <<>>)
               <=> (\E i \in DOMAIN u : u[i].rule = ".highlight")

C14_Witness ==
    /\ pc = "generated"
    /\ categorized.neutral = << <<160, 160, 160>>, <<240, 240, 240>>, <<40, 40, 40>> >>
    /\ categorized.primary # <<>>
    /\ \E i \in DOMAIN css_output.usage :
          css_output.usage[i].fallback = rgb_to_hex(<<40, 40, 40>>)

----------------------------------------------------------------------------
(* Properties of main's output steps *)

\* the run has dumped the JSON sidecar
JsonWritten == args_json /\ ~failed /\ pc \in {"json_done", "exit"}

JsonFiles == { q \in DOMAIN files : files[q].kind = "json" }

CssFiles == { q \in DOMAIN files : files[q].kind = "css" }

DecodeAll(hs) == [i \in 1..Len(hs) |-> RefDecode(hs[i])]

\* C15: the JSON sidecar has exactly the keys primary, neutral, accent and
\* all_colors; all_colors is the hex encoding of the extracted colours in
\* extract_palette's order, the bucket arrays are the hex encodings of the
\* buckets in classification order, and the three bucket arrays together
\* are a permutation of all_colors.
C15_JsonSidecar ==
    JsonWritten =>
      /\ JsonFiles # {}
      /\ \A q \in JsonFiles :
           LET j == files[q].body
               buckets == j.primary \o j.neutral \o j.accent
           IN  /\ DOMAIN j = {"primary", "neutral", "accent", "all_colors"}
               /\ \A i \in DOMAIN j.all_colors :
                     Len(j.all_colors[i]) = 7 /\ j.all_colors[i][1] = "#"
               /\ DecodeAll(j.all_colors) = colors
               /\ DecodeAll(j.primary) = categorized.primary
               /\ DecodeAll(j.neutral) = categorized.neutral
               /\ DecodeAll(j.accent) = categorized.accent
               /\ Len(buckets) = Len(j.all_colors)
               /\ \A h \in Range(j.all_colors) :
                     Count(h, buckets) = Count(h, j.all_colors)

C15_Witness ==
    /\ JsonWritten
    /\ pc = "exit"
    /\ categorized.primary # <<>>
    /\ categorized.neutral # <<>>
    /\ categorized.accent # <<>>
    /\ colors # categorized.primary \o categorized.neutral \o categorized.accent

\* C16 as claimed: after a successful run with --json the file at the
\* --output path holds the generated CSS, the JSON is in one other file, and
\* nothing else was written.
C16_SidecarBesideCss ==
    (pc = "exit" /\ exit_code = 0 /\ args_json) =>
      /\ args_output \in DOMAIN files
      /\ files[args_output] = [kind |-> "css", body |-> css_output]
      /\ \E q \in JsonFiles : q # args_output
      /\ Cardinality(DOMAIN files) = 2

\* C17 as claimed: when a run has ended, either every requested output file
\* (the CSS file, and the JSON sidecar when --json is set) has been written
\* with the full palette, or no file has been written.
C17_AllOrNothing ==
    pc = "exit" =>
      \/ DOMAIN files = {}
      \/ /\ \E q \in CssFiles : files[q].body = css_output
         /\ args_json =>
              \E q \in JsonFiles : files[q].body = BuildJson(categorized, colors)

InstallLines ==
    << "Error: Required libraries not installed. Install with:",
       "  pip install Pillow numpy scikit-learn" >>

ImportFailed == \E i \in DOMAIN stdout : stdout[i] = InstallLines[1]

\* C18: when the imports fail, extract_palette has printed the install
\* instructions and returned no palette, and main returns 1 with nothing
\* categorized and no file written.
C18_MissingDependency ==
    /\ pc = "no_palette" => ImportFailed
    /\ ImportFailed =>
         /\ \E i \in DOMAIN stdout : stdout[i] = InstallLines[2]
         /\ pc \in {"no_palette", "exit"}
         /\ colors = <<>>
         /\ categorized = EmptyBuckets
         /\ css_output.vars = <<>>
         /\ DOMAIN files = {}
         /\ ~("categorize" \in Range(stages))
         /\ (pc = "exit" => exit_code = 1)

C18_Witness ==
    /\ pc = "exit"
    /\ ImportFailed
    /\ exit_code = 1

StageOrder == << "sample", "cluster", "categorize", "emit" >>

\* C19: the stages entered are always an initial part of sample, cluster,
\* categorize, emit (in order, each once); once a step has failed no stage
\* is entered any more; a run that ends after a failure ends with a non-zero
\* status, and a run that ends without one has entered all four stages and
\* ends with status 0.
C19_SequentialNoRetry ==
    /\ [](/\ Len(stages) <= Len(StageOrder)
          /\ stages = SubSeq(StageOrder, 1, Len(stages)))
    /\ [](pc = "exit" =>
            /\ (failed => exit_code # 0)
            /\ (~failed => stages = StageOrder /\ exit_code = 0))
    /\ [][failed => (failed' /\ stages' = stages)]_vars

C19_Witness ==
    /\ pc = "exit"
    /\ failed
    /\ exit_code = 1
    /\ stages = StageOrder

----------------------------------------------------------------------------
(* Properties of rgb_to_hex (SpecColor) *)

LowerHexDigits ==
    { "0", "1", "2", "3", "4", "5", "6", "7", "8", "9", "a", "b", "c", "d", "e", "f" }

\* C20: rgb_to_hex gives "#" and six lowercase hexadecimal digits, two per
\* channel in R, G, B order, which decode to the colour again; (0,0,0) gives
\* #000000, (255,255,255) gives #ffffff and (18,52,86) gives #123456.
C20_HexRoundTrip ==
    pc = "hex_done" =>
      /\ Len(hex) = 7
      /\ hex[1] = "#"
      /\ \A i \in 2..7 : hex[i] \in LowerHexDigits
      /\ RefDecode(hex) = rgb
      /\ (rgb = <<0, 0, 0>> => hex = << "#", "0", "0", "0", "0", "0", "0" >>)
      /\ (rgb = <<255, 255, 255>> => hex = << "#", "f", "f", "f", "f", "f", "f" >>)
      /\ (rgb = <<18, 52, 86>> => hex = << "#", "1", "2", "3", "4", "5", "6" >>)

C20_Witness ==
    /\ pc = "hex_done"
    /\ rgb = <<18, 52, 86>>
    /\ hex = << "#", "1", "2", "3", "4", "5", "6" >>

----------------------------------------------------------------------------
(* Properties of repeated calls of categorize_colors (SpecRecall) *)

----------------------------------------------------------------------------
(* Properties of get_luminance (SpecColor) *)

\* the gray colour one step darker than the gray colour c
Darker(c) == << c[1] - 1, c[1] - 1, c[1] - 1 >>

IsGrayRamp(c) == c[1] = c[2] /\ c[2] = c[3]

\* C22: on gray colours (v,v,v) get_luminance is strictly increasing in v
\* over 0..255, the step from the linear branch (v <= 10) to the power-curve
\* branch (v >= 11) included: each gray is strictly brighter than the gray
\* one step darker, black has luminance 0.
C22_GrayRampIncreasing ==
    (pc = "lum_done" /\ IsGrayRamp(rgb)) =>
      IF rgb[1] = 0 THEN lum = 0 ELSE lum > get_luminance(Darker(rgb))

C22_Witness ==
    /\ pc = "lum_done"
    /\ rgb = <<11, 11, 11>>
    /\ lum > get_luminance(<<10, 10, 10>>)

----------------------------------------------------------------------------
(* Properties relating the usage example to the :root block (SpecEmit) *)

\* the custom properties the :root block declares
DeclaredNames == { css_output.vars[j].name : j \in DOMAIN css_output.vars }

\* C27 as claimed: every custom property the usage example names in var(...)
\* (--color-light-1, --color-dark-1, --color-primary-1, --color-accent-1) is
\* declared, under that exact name, in the :root block generated from the
\* same categorized palette.
C27_UsageRefsDeclared ==
    pc = "generated" =>
      \A i \in DOMAIN css_output.usage :
         css_output.usage[i].ref.kind # "white"
           => css_output.usage[i].ref \in DeclaredNames

----------------------------------------------------------------------------
(* Properties of test_component.py and generate_component.py (SpecComponent) *)

\* a call of generate_test_page has ended (returned or raised)
TestPageEnded == output_file # <<>> /\ result # "none"

\* a call of generate_component has ended (returned or raised)
ComponentEnded == name # <<>> /\ result # "none"

\* a command-line run of generate_component.py has ended
ComponentRunEnded == name # <<>> /\ pc = "exit"

ImeMarker == "<script>// Korean IME"

\* the segments of the generated HTML that hold the IME handling script
ImeSegments(h) == { i \in DOMAIN h : ImeMarker \in Range(h[i]) }

\* C23 as claimed: for every component type of COMPONENT_CONFIGS (search,
\* infinite-scroll, modal) generate_test_page renders the template without
\* error, writes the page to the output file and returns True (exit status 0).
C23_TestPageWritten ==
    (TestPageEnded /\ component_type \in DOMAIN COMPONENT_CONFIGS) =>
      /\ result = "True"
      /\ output_file \in DOMAIN files
      /\ (pc = "exit" => exit_code = 0)

\* C24 as claimed: for a component type whose parameters include input_id,
\* generate_component with korean=True completes successfully and the HTML
\* holds the Korean IME script with that input id substituted; with
\* korean=False the IME script placeholder is replaced by the empty string.
C24_KoreanImeScript ==
    (/\ ComponentEnded
     /\ component_type \in DOMAIN COMPONENTS
     /\ "input_id" \in DOMAIN COMPONENTS[component_type].params) =>
      /\ result = "True"
      /\ IF korean
         THEN \E i \in ImeSegments(html_content) :
                 \A p \in Range(COMPONENTS[component_type].params["input_id"]) :
                    p \in Range(html_content[i])
         ELSE ImeSegments(html_content) = {}

\* C25 as claimed: every component type the documentation lists is accepted
\* by generate_component, which generates the component and returns True; a
\* command-line run with such a type exits with 0 (stated here for calls and
\* runs without the korean option).
C25_DocumentedTypesGenerated ==
    /\ (ComponentEnded /\ component_type \in DocumentedTypes /\ ~korean)
          => result = "True"
    /\ (ComponentRunEnded /\ component_type \in DocumentedTypes /\ ~korean)
          => exit_code = 0

\* C30 as claimed: generate_component writes files only when an output
\* directory is given: with output_dir set it writes <name>.html there and
\* <name with - replaced by _>_handler.go exactly when go_handler is true,
\* and nothing else; with no output_dir it writes no file; for a type not in
\* COMPONENTS it returns False (exit status 1), writes no file and creates
\* no directory.
C30_FilesWritten ==
    ComponentEnded =>
      IF component_type \notin DOMAIN COMPONENTS
      THEN /\ result = "False"
           /\ files = <<>>
           /\ dirs = {}
           /\ (pc = "exit" => exit_code = 1)
      ELSE IF output_dir = <<>>
      THEN files = <<>> /\ dirs = {}
      ELSE DOMAIN files = {HtmlPath(output_dir, name)}
                            \cup (IF go_handler THEN {GoPath(output_dir, name)}
                                  ELSE {})

----------------------------------------------------------------------------
(* Properties of analyze_templates.py (SpecTemplates) *)

\* the strings whose presence in the lowercased line rules a link out
NavExclusions ==
    { << "hx-" >>, << "http://" >>, << "https://" >>, << "href=", "dq", "#" >> }

RefNavLine(line) ==
    /\ Has(Lower(line), << "<a", " ", "href=" >>)
    /\ \A p \in NavExclusions : ~Has(Lower(line), p)

NavLinksAt(opps, n) ==
    { i \in DOMAIN opps : opps[i].opp_type = "Nav Link" /\ opps[i].line_num = n }

RECURSIVE RefFileOpps(_, _, _)
\* the opportunities of the lines from line n on
RefFileOpps(file, lines, n) ==
    IF n > Len(lines) THEN <<>>
    ELSE LineOpps(file, n, lines[n]) \o RefFileOpps(file, lines, n + 1)

\* the opportunities print_opportunities listed
ListedOpps == { stdout[i].opp : i \in { j \in DOMAIN stdout : stdout[j].kind = "item" } }

FoundOpps == Range(AllOpps(all_opportunities))

FoundTypes == { o.opp_type : o \in FoundOpps }

Printed == template_dir.kind = "dir" /\ pc \in {"tm_printed", "exit"}

\* C26 as claimed: with --verbose every opportunity found is shown; without
\* --verbose at most the first 3 opportunities of a type are listed, and with
\* --priority at most 5 of high priority, 3 of medium priority and none of
\* low priority (only their count).
C26_VerboseShowsAll ==
    Printed =>
      IF args_verbose THEN FoundOpps \subseteq ListedOpps
      ELSE \A ty \in FoundTypes :
              LET ofType == OfType(AllOpps(all_opportunities), ty)
                  listed(s) == Cardinality(ListedOpps \cap Range(s))
              IN  IF args_priority
                  THEN /\ listed(OfPriority(ofType, "high")) <= 5
                       /\ listed(OfPriority(ofType, "medium")) <= 3
                       /\ listed(OfPriority(ofType, "low")) = 0
                  ELSE /\ listed(ofType) <= 3
                       /\ ListedOpps \cap Range(ofType)
                            = Range(SubSeq(ofType, 1, listed(ofType)))

\* C28: while analyze_template_file scans a file, each line already scanned
\* has one 'Nav Link' opportunity (priority low) when its lowercased text
\* contains '<a href=' and none of 'hx-', 'http://', 'https://', 'href="#',
\* and none otherwise; the line numbers of the opportunities are 1-based
\* and non-decreasing along the list.
C28_NavLinkPerLine ==
    pc = "tm_lines" =>
      /\ \A n \in 1..(line_num - 1) :
            Cardinality(NavLinksAt(opportunities, n))
              = (IF RefNavLine(CurrentFile.lines[n]) THEN 1 ELSE 0)
      /\ \A i \in DOMAIN opportunities :
            /\ opportunities[i].line_num \in 1..(line_num - 1)
            /\ opportunities[i].opp_type = "Nav Link"
                  => opportunities[i].priority = "low"
            /\ \A j \in DOMAIN opportunities :
                  i < j => opportunities[i].line_num <= opportunities[j].line_num

C28_Witness ==
    /\ pc = "tm_lines"
    /\ line_num = 3
    /\ Has(CurrentFile.lines[1], << "https://" >>)
    /\ Has(CurrentFile.lines[1], << "/a" >>)
    /\ Has(CurrentFile.lines[2], << "Next" >>)
    /\ Len(opportunities) = 2
    /\ opportunities[1].opp_type = "Nav Link"
    /\ opportunities[1].line_num = 2
    /\ opportunities[2].opp_type = "Pagination"

\* the template files of the directory
TemplatePaths ==
    { k \in DOMAIN template_dir.entries : template_dir.entries[k].ext \in {"html", "tmpl"} }

EntriesFor(k) == { i \in DOMAIN all_opportunities : all_opportunities[i].file = k }

WarningsFor(k) ==
    { i \in DOMAIN stdout : stdout[i].kind = "warning" /\ stdout[i].file = k }

\* C29: a run on a directory ends with status 0 whatever files cannot be
\* read: each unreadable template file has a warning and no entry in the
\* result, every other template file has been analyzed (its entry holds its
\* opportunities, and it has none only when it has no opportunity); a path
\* that does not exist or is no directory ends the run with status 1 before
\* any file is scanned.
C29_UnreadableSkipped ==
    pc = "exit" =>
      IF template_dir.kind # "dir"
      THEN /\ exit_code = 1
           /\ html_files = <<>>
           /\ all_opportunities = <<>>
           /\ \A i \in DOMAIN stdout : stdout[i].kind = "error"
      ELSE /\ exit_code = 0
           /\ Range(html_files) = TemplatePaths
           /\ \A k \in TemplatePaths :
                 LET f == template_dir.entries[k]
                 IN  IF ~f.readable
                     THEN EntriesFor(k) = {} /\ Cardinality(WarningsFor(k)) = 1
                     ELSE /\ WarningsFor(k) = {}
                          /\ Cardinality(EntriesFor(k))
                               = (IF RefFileOpps(k, f.lines, 1) # <<>> THEN 1 ELSE 0)
                          /\ \A i \in EntriesFor(k) :
                                all_opportunities[i].opps = RefFileOpps(k, f.lines, 1)

C29_Witness ==
    /\ pc = "exit"
    /\ exit_code = 0
    /\ Len(template_dir.entries) = 2
    /\ ~template_dir.entries[1].readable
    /\ template_dir.entries[2].readable
    /\ Len(all_opportunities) = 1
    /\ all_opportunities[1].file = 2
    /\ WarningsFor(1) # {}

====
